---------------------------- MODULE Spec2Model ----------------------------
(***************************************************************************)
(* Model of the invoice field extractor (src/extractor.py) and of the      *)
(* upload handler that composes it (src/app.py).                           *)
(*                                                                         *)
(* Text is modelled at character level: a string is a sequence of          *)
(* one-character strings, a document is a sequence of such lines.  The     *)
(* regular expressions of the source are modelled by operators that scan   *)
(* these sequences the way the backtracking matcher of Python's re does.   *)
(* A float is modelled exactly, as the tuple of its sign, the digits of    *)
(* its integer part (no leading zeros) and the digits of its fraction (no  *)
(* trailing zeros).  Python's None is the tuple None below, which is        *)
(* neither a string nor a float.                                           *)
(* The characters outside ASCII that the source names are written by name: *)
(* "euro", "pound", "rupee", "yen", "minus" (U+2212) and "nbsp" (U+00A0).  *)
(***************************************************************************)
EXTENDS Integers, Sequences, FiniteSets, TLC

None == <<"None">>

(***************************************************************************)
(* Characters and strings                                                  *)
(***************************************************************************)
Digits == {"0", "1", "2", "3", "4", "5", "6", "7", "8", "9"}

DigitVal == [c \in Digits |->
               CASE c = "0" -> 0 [] c = "1" -> 1 [] c = "2" -> 2 [] c = "3" -> 3
                 [] c = "4" -> 4 [] c = "5" -> 5 [] c = "6" -> 6 [] c = "7" -> 7
                 [] c = "8" -> 8 [] c = "9" -> 9]

UpperLetters == {"A", "B", "C", "D", "E", "F", "G", "H", "I", "J", "K", "L", "M",
                 "N", "O", "P", "Q", "R", "S", "T", "U", "V", "W", "X", "Y", "Z"}

LowerLetters == {"a", "b", "c", "d", "e", "f", "g", "h", "i", "j", "k", "l", "m",
                 "n", "o", "p", "q", "r", "s", "t", "u", "v", "w", "x", "y", "z"}

Letters == UpperLetters \cup LowerLetters

\* str.lower() on one character
LowerChar(c) ==
    CASE c = "A" -> "a" [] c = "B" -> "b" [] c = "C" -> "c" [] c = "D" -> "d"
      [] c = "E" -> "e" [] c = "F" -> "f" [] c = "G" -> "g" [] c = "H" -> "h"
      [] c = "I" -> "i" [] c = "J" -> "j" [] c = "K" -> "k" [] c = "L" -> "l"
      [] c = "M" -> "m" [] c = "N" -> "n" [] c = "O" -> "o" [] c = "P" -> "p"
      [] c = "Q" -> "q" [] c = "R" -> "r" [] c = "S" -> "s" [] c = "T" -> "t"
      [] c = "U" -> "u" [] c = "V" -> "v" [] c = "W" -> "w" [] c = "X" -> "x"
      [] c = "Y" -> "y" [] c = "Z" -> "z" [] OTHER -> c

\* str.lower()
Lower(s) == [i \in 1..Len(s) |-> LowerChar(s[i])]

\* the characters \s matches, and the characters \w matches
WhiteSpace == {" ", "\t", "\n", "nbsp"}

WordChars == Letters \cup Digits \cup {"_"}

\* s[a..b] as Python's s[a-1:b]: b is clamped to the length, empty when b < a
Slice(s, a, b) ==
    LET e == IF b > Len(s) THEN Len(s) ELSE b
    IN  IF e < a THEN <<>> ELSE [i \in 1..(e - a + 1) |-> s[a + i - 1]]

\* sub occurs in s at index p
OccursAt(s, sub, p) ==
    /\ p >= 1
    /\ p + Len(sub) - 1 <= Len(s)
    /\ \A k \in 1..Len(sub) : s[p + k - 1] = sub[k]

\* Python's `sub in s`
Contains(s, sub) == \E p \in 1..(Len(s) - Len(sub) + 1) : OccursAt(s, sub, p)

\* str.find: the least index where sub occurs, 0 when it does not
Find(s, sub) ==
    IF Contains(s, sub)
    THEN CHOOSE p \in 1..(Len(s) - Len(sub) + 1) :
            /\ OccursAt(s, sub, p)
            /\ \A q \in 1..(p - 1) : ~OccursAt(s, sub, q)
    ELSE 0

\* the regex assertion \b between s[p-1] and s[p]
WordBoundary(s, p) ==
    LET before == p > 1 /\ p - 1 <= Len(s) /\ s[p - 1] \in WordChars
        after  == p >= 1 /\ p <= Len(s) /\ s[p] \in WordChars
    IN  before # after

\* str.strip()
RECURSIVE LStripFrom(_, _)
LStripFrom(s, p) ==
    IF p <= Len(s) /\ s[p] \in WhiteSpace THEN LStripFrom(s, p + 1) ELSE p

RECURSIVE RStripFrom(_, _)
RStripFrom(s, p) ==
    IF p >= 1 /\ s[p] \in WhiteSpace THEN RStripFrom(s, p - 1) ELSE p

Strip(s) == Slice(s, LStripFrom(s, 1), RStripFrom(s, Len(s)))

\* the number of digits of s: len(re.sub(r"\D", "", s))
DigitCount(s) == Cardinality({i \in 1..Len(s) : s[i] \in Digits})

\* the characters of s that satisfy keep, in order
RECURSIVE FilterFrom(_, _, _)
FilterFrom(s, keep, p) ==
    IF p > Len(s) THEN <<>>
    ELSE IF s[p] \in keep THEN <<s[p]>> \o FilterFrom(s, keep, p + 1)
    ELSE FilterFrom(s, keep, p + 1)

(***************************************************************************)
(* Floats.  float(s) of a decimal literal is kept exactly as the tuple     *)
(* <<neg, ip, fp>>: neg is the sign, ip the digits of the integer part     *)
(* without leading zeros, fp the digits of the fraction without trailing   *)
(* zeros.  Two floats are equal exactly when their tuples are (-0.0 == 0.0 *)
(* has neg = FALSE).                                                       *)
(***************************************************************************)
Neg(f) == f[1]

IntPart(f) == f[2]

FracPart(f) == f[3]

RECURSIVE DropLeadingZeros(_)
DropLeadingZeros(d) ==
    IF d # <<>> /\ d[1] = "0" THEN DropLeadingZeros(Tail(d)) ELSE d

RECURSIVE DropTrailingZeros(_)
DropTrailingZeros(d) ==
    IF d # <<>> /\ d[Len(d)] = "0"
    THEN DropTrailingZeros(SubSeq(d, 1, Len(d) - 1)) ELSE d

MkFloat(neg, ipart, fpart) ==
    LET i == DropLeadingZeros(ipart)
        f == DropTrailingZeros(fpart)
    IN  <<neg /\ (i # <<>> \/ f # <<>>), i, f>>

\* float(s) for s over digits, '.' and '-': None where Python raises ValueError
FloatOf(s) ==
    LET neg  == s # <<>> /\ s[1] = "-"
        body == IF neg THEN Tail(s) ELSE s
        dots == {i \in 1..Len(body) : body[i] = "."}
        dot  == IF dots = {} THEN Len(body) + 1 ELSE CHOOSE i \in dots : TRUE
    IN  IF \/ Cardinality(dots) > 1
           \/ \E i \in 1..Len(body) : body[i] = "-"
           \/ DigitCount(body) = 0
        THEN None
        ELSE MkFloat(neg, Slice(body, 1, dot - 1), Slice(body, dot + 1, Len(body)))

\* abs(a) < abs(b)
RECURSIVE DigitsLess(_, _, _)
DigitsLess(a, b, p) ==
    LET da == IF p <= Len(a) THEN DigitVal[a[p]] ELSE 0
        db == IF p <= Len(b) THEN DigitVal[b[p]] ELSE 0
    IN  IF p > Len(a) /\ p > Len(b) THEN FALSE
        ELSE IF da # db THEN da < db
        ELSE DigitsLess(a, b, p + 1)

AbsLess(a, b) ==
    IF Len(IntPart(a)) # Len(IntPart(b)) THEN Len(IntPart(a)) < Len(IntPart(b))
    ELSE IF IntPart(a) # IntPart(b) THEN DigitsLess(IntPart(a), IntPart(b), 1)
    ELSE DigitsLess(FracPart(a), FracPart(b), 1)

\* the literal 3.0
Three == <<FALSE, <<"3">>, <<>> >>

(***************************************************************************)
(* parse_amount_text                                                       *)
(***************************************************************************)
\* str.replace(old, new) for a one-character old and a new of length <= 1
ReplaceChar(s, old, new) ==
    LET RECURSIVE Go(_)
        Go(p) == IF p > Len(s) THEN <<>>
                 ELSE (IF s[p] = old THEN new ELSE <<s[p]>>) \o Go(p + 1)
    IN  Go(1)

\* str.rfind of a character: the greatest index, 0 when absent
RFind(s, c) ==
    LET at == {i \in 1..Len(s) : s[i] = c}
    IN  IF at = {} THEN 0 ELSE CHOOSE i \in at : \A j \in at : j <= i

\* a variant of HasThousandsComma without the word boundary: ",\d{3}"
HasThousandsCommaNoBoundary(s) ==
    \E p \in 1..Len(s) :
        /\ s[p] = ","
        /\ p + 3 <= Len(s)
        /\ \A k \in 1..3 : s[p + k] \in Digits

\* re.search(r",\d{3}\b", s)
HasThousandsComma(s) ==
    \E p \in 1..Len(s) :
        /\ s[p] = ","
        /\ p + 3 <= Len(s)
        /\ \A k \in 1..3 : s[p + k] \in Digits
        /\ WordBoundary(s, p + 4)

parse_amount_text(amt_text) ==
    IF amt_text = <<>> THEN None
    ELSE
    LET s0 == ReplaceChar(ReplaceChar(amt_text, "nbsp", <<>>), " ", <<>>)
        hasComma == \E i \in 1..Len(s0) : s0[i] = ","
        hasDot   == \E i \in 1..Len(s0) : s0[i] = "."
        s1 == IF hasComma /\ hasDot
              THEN IF RFind(s0, ",") < RFind(s0, ".")
                   THEN ReplaceChar(s0, ",", <<>>)
                   ELSE ReplaceChar(ReplaceChar(s0, ".", <<>>), ",", <<".">>)
              ELSE IF hasComma /\ HasThousandsComma(s0)
                   THEN ReplaceChar(s0, ",", <<>>)
                   ELSE ReplaceChar(s0, ",", <<".">>)
        s2 == FilterFrom(s1, Digits \cup {".", "-"}, 1)
    IN  FloatOf(s2)

(***************************************************************************)
(* AMOUNT_RE and detect_currency                                           *)
(***************************************************************************)
UpperChar(c) ==
    IF c \in LowerLetters THEN CHOOSE u \in UpperLetters : LowerChar(u) = c ELSE c

Upper(s) == [i \in 1..Len(s) |-> UpperChar(s[i])]

\* CURRENCY_SYMS, the sign class [-−] and CURRENCY_CODES
CURRENCY_SYMS == {"$", "euro", "pound", "rupee", "yen"}

SignChars == {"-", "minus"}

CURRENCY_CODES == {<<"U", "S", "D">>, <<"E", "U", "R">>, <<"I", "N", "R">>,
                   <<"G", "B", "P">>, <<"A", "U", "D">>, <<"C", "A", "D">>,
                   <<"J", "P", "Y">>}

\* \b(?:USD|EUR|...)\b matches at index k, letters in any case
CodeAt(s, k) ==
    /\ k + 2 <= Len(s)
    /\ WordBoundary(s, k)
    /\ Upper(Slice(s, k, k + 2)) \in CURRENCY_CODES
    /\ WordBoundary(s, k + 3)

\* the index after (?:[,.\s]\d{3})* matched greedily from j
RECURSIVE GroupsEnd(_, _)
GroupsEnd(s, j) ==
    IF /\ j + 3 <= Len(s)
       /\ s[j] \in ({",", "."} \cup WhiteSpace)
       /\ \A k \in 1..3 : s[j + k] \in Digits
    THEN GroupsEnd(s, j + 4)
    ELSE j

\* The match of AMOUNT_RE that starts at index p, as a sequence of one match
\* object, or the empty sequence when the pattern does not match there.
\* The first alternative of <amt>, \d{1,3}(?:[,.\s]\d{3})*, matches whenever a
\* digit is next, and what follows it in the pattern can match the empty
\* string, so the matcher never comes to the second alternative.
AmountMatchAt(s, p) ==
    LET a1 == IF p <= Len(s) /\ s[p] \in SignChars THEN p + 1 ELSE p
        a2 == LStripFrom(s, a1)
        a3 == IF a2 <= Len(s) /\ s[a2] \in CURRENCY_SYMS THEN a2 + 1 ELSE a2
        a4 == LStripFrom(s, a3)
        d1 == IF a4 + 2 <= Len(s) /\ s[a4 + 1] \in Digits /\ s[a4 + 2] \in Digits
              THEN a4 + 3
              ELSE IF a4 + 1 <= Len(s) /\ s[a4 + 1] \in Digits THEN a4 + 2
              ELSE a4 + 1
        a5 == GroupsEnd(s, d1)
        a6 == LStripFrom(s, a5)
        hasCode == CodeAt(s, a6)
        a7 == IF hasCode THEN a6 + 3 ELSE a6
    IN  IF p > Len(s) \/ a4 > Len(s) \/ s[a4] \notin Digits THEN <<>>
        ELSE << [start |-> p,
              stop  |-> a7,
              raw   |-> Slice(s, p, a7 - 1),
              sign  |-> IF a1 > p THEN <<s[p]>> ELSE <<>>,
              sym   |-> IF a3 > a2 THEN <<s[a2]>> ELSE None,
              amt   |-> Slice(s, a4, a5 - 1),
              code  |-> IF hasCode THEN Slice(s, a6, a6 + 2) ELSE None] >>

\* AMOUNT_RE.finditer(s): the matches from index p on, left to right
RECURSIVE AmountMatchesFrom(_, _)
AmountMatchesFrom(s, p) ==
    IF p > Len(s) THEN <<>>
    ELSE LET m == AmountMatchAt(s, p)
         IN  IF m = <<>> THEN AmountMatchesFrom(s, p + 1)
             ELSE m \o AmountMatchesFrom(s, m[1].stop)

AMOUNT_RE_finditer(s) == AmountMatchesFrom(s, 1)

\* a variant of AMOUNT_RE_search that finds no match
AMOUNT_RE_search_none(s) == FALSE

\* AMOUNT_RE.search(s) finds a match
AMOUNT_RE_search(s) == \E p \in 1..Len(s) : AmountMatchAt(s, p) # <<>>

detect_currency(sym, code, raw) ==
    IF code # None THEN Upper(code)
    ELSE IF sym # None
    THEN CASE sym = <<"$">> -> <<"U", "S", "D">>
           [] sym = <<"euro">> -> <<"E", "U", "R">>
           [] sym = <<"pound">> -> <<"G", "B", "P">>
           [] sym = <<"rupee">> -> <<"I", "N", "R">>
           [] sym = <<"yen">> -> <<"J", "P", "Y">>
           [] OTHER -> None
    ELSE IF \E k \in 1..Len(raw) : CodeAt(raw, k)
    THEN LET k == CHOOSE i \in 1..Len(raw) :
                     CodeAt(raw, i) /\ \A j \in 1..(i - 1) : ~CodeAt(raw, j)
         IN  Upper(Slice(raw, k, k + 2))
    ELSE None

(***************************************************************************)
(* text_to_lines and find_amounts_with_context                             *)
(***************************************************************************)
\* the least index >= from where c occurs in t, 0 when there is none
NextIndex(t, c, from) ==
    LET at == {i \in from..Len(t) : t[i] = c}
    IN  IF at = {} THEN 0 ELSE CHOOSE i \in at : \A k \in at : i <= k

\* str.splitlines() of a text whose only line break is "\n"
RECURSIVE SplitLinesFrom(_, _)
SplitLinesFrom(t, from) ==
    LET nl == NextIndex(t, "\n", from)
    IN  IF from > Len(t) THEN <<>>
        ELSE IF nl = 0 THEN <<Slice(t, from, Len(t))>>
        ELSE <<Slice(t, from, nl - 1)>> \o SplitLinesFrom(t, nl + 1)

SplitLines(t) == SplitLinesFrom(t, 1)

\* the non-empty elements of a sequence of strings, each stripped
RECURSIVE StrippedNonEmpty(_)
StrippedNonEmpty(ls) ==
    IF ls = <<>> THEN <<>>
    ELSE LET ln == Strip(Head(ls))
         IN  (IF Len(ln) = 0 THEN <<>> ELSE <<ln>>) \o StrippedNonEmpty(Tail(ls))

text_to_lines(t) == StrippedNonEmpty(SplitLines(t))

\* re.search(r"[,\.]\d{2}\b", raw)
HasTwoDecimals(raw) ==
    \E p \in 1..Len(raw) :
        /\ raw[p] \in {",", "."}
        /\ p + 2 <= Len(raw)
        /\ raw[p + 1] \in Digits /\ raw[p + 2] \in Digits
        /\ WordBoundary(raw, p + 3)

\* the labels "subtotal", "tax" and "total_due"
LblSubtotal == <<"s", "u", "b", "t", "o", "t", "a", "l">>

LblTax == <<"t", "a", "x">>

LblTotalDue == <<"t", "o", "t", "a", "l", "_", "d", "u", "e">>

\* the label guess of a line
LabelOf(ln) ==
    LET low == Lower(ln)
    IN  IF Contains(low, <<"s", "u", "b", "t", "o", "t", "a", "l">>) THEN LblSubtotal
        ELSE IF Contains(low, <<"t", "a", "x">>) THEN LblTax
        ELSE IF Contains(low, <<"t", "o", "t", "a", "l">>) /\ Contains(low, <<"d", "u", "e">>)
             THEN LblTotalDue
        ELSE None

\* a variant of SmallAmountBound: the literal 0.0, below which no abs() is
SmallAmountBoundZero == <<FALSE, <<>>, <<>> >>

SmallAmountBound == Three

\* the body of the inner loop for one match m on line i: the candidate it
\* appends to found, <<>> when it continues without appending
CandidateOf(lines, i, m) ==
    LET ln == lines[i]
        digits == DigitCount(m.raw)
        value == parse_amount_text(m.sign \o m.amt)
        currency == detect_currency(m.sym, m.code, m.raw)
        context == IF i > 1 /\ ~AMOUNT_RE_search(lines[i - 1])
                   THEN lines[i - 1] \o <<" ", "|", " ">> \o ln
                   ELSE ln
        label == LabelOf(ln)
    IN  IF m.sym = None /\ m.code = None /\ digits > 10 /\ ~HasTwoDecimals(m.raw)
        THEN <<>>
        ELSE IF value = None THEN <<>>
        ELSE IF AbsLess(value, SmallAmountBound) /\ label = None /\ currency = None
        THEN <<>>
        ELSE << [amount   |-> value,
                 currency |-> currency,
                 raw      |-> Strip(m.raw),
                 context  |-> Strip(context),
                 line     |-> ln,
                 label    |-> label] >>

RECURSIVE CandidatesOfMatches(_, _, _)
CandidatesOfMatches(lines, i, ms) ==
    IF ms = <<>> THEN <<>>
    ELSE CandidateOf(lines, i, Head(ms)) \o CandidatesOfMatches(lines, i, Tail(ms))

RECURSIVE FoundFrom(_, _)
FoundFrom(lines, i) ==
    IF i > Len(lines) THEN <<>>
    ELSE CandidatesOfMatches(lines, i, AMOUNT_RE_finditer(lines[i]))
            \o FoundFrom(lines, i + 1)

ContextKeyLen == 60

\* a variant of DedupKey without the context prefix
DedupKeyNoContext(f) == <<f.amount, f.currency, f.raw>>

DedupKey(f) ==
    <<f.amount, f.currency, f.raw, Slice(f.context, 1, ContextKeyLen)>>

\* keeps the first element of each key, in order
RECURSIVE DedupFound(_, _)
DedupFound(found, keys) ==
    IF found = <<>> THEN <<>>
    ELSE LET f == Head(found)
             key == DedupKey(f)
         IN  IF key \in keys THEN DedupFound(Tail(found), keys)
             ELSE <<f>> \o DedupFound(Tail(found), keys \cup {key})

\* a variant of score_item that ranks tax between total_due and subtotal
score_item_tax_first(it) ==
    (IF it.label = LblSubtotal THEN 0 - 100 ELSE 0)
  + (IF it.label = LblTax THEN 0 - 105 ELSE 0)
  + (IF it.label = LblTotalDue THEN 0 - 110 ELSE 0)

score_item(it) ==
    (IF it.label = LblSubtotal THEN 0 - 100 ELSE 0)
  + (IF it.label = LblTax THEN 0 - 90 ELSE 0)
  + (IF it.label = LblTotalDue THEN 0 - 110 ELSE 0)

\* list.sort(key=score_item): stable, ascending
RECURSIVE InsertByScore(_, _)
InsertByScore(sorted, x) ==
    IF sorted = <<>> THEN <<x>>
    ELSE IF score_item(x) < score_item(Head(sorted))
         THEN <<x>> \o sorted
         ELSE <<Head(sorted)>> \o InsertByScore(Tail(sorted), x)

RECURSIVE SortByScore(_, _)
SortByScore(done, rest) ==
    IF rest = <<>> THEN done
    ELSE SortByScore(InsertByScore(done, Head(rest)), Tail(rest))

find_amounts_with_context(t) ==
    SortByScore(<<>>, DedupFound(FoundFrom(text_to_lines(t), 1), {}))

(***************************************************************************)
(* find_totals                                                             *)
(***************************************************************************)
\* the first loop of find_totals: each labeled candidate assigns its slot
RECURSIVE AssignTotals(_, _)
AssignTotals(totals, amounts) ==
    IF amounts = <<>> THEN totals
    ELSE LET a == Head(amounts)
             next == IF a.label = LblSubtotal THEN [totals EXCEPT !.subtotal = a.amount]
                     ELSE IF a.label = LblTax THEN [totals EXCEPT !.tax = a.amount]
                     ELSE IF a.label = LblTotalDue
                          THEN [totals EXCEPT !.total_due = a.amount]
                     ELSE totals
         IN  AssignTotals(next, Tail(amounts))

\* a variant of LargestByAbs without the sort: amounts[0]
LargestUnsorted(amounts) == amounts[1]

\* sorted(amounts, key=abs(amount), reverse=True)[0]: the sort is stable, so
\* this is the first candidate that no candidate exceeds in absolute value
LargestByAbs(amounts) ==
    LET i == CHOOSE k \in 1..Len(amounts) :
                /\ \A j \in 1..Len(amounts) :
                       ~AbsLess(amounts[k].amount, amounts[j].amount)
                /\ \A j \in 1..(k - 1) :
                       AbsLess(amounts[j].amount, amounts[k].amount)
    IN  amounts[i]

\* a variant of find_totals without the guess by magnitude
find_totals_labeled_only(amounts) ==
    AssignTotals([subtotal |-> None, tax |-> None, total_due |-> None], amounts)

find_totals(amounts) ==
    LET labeled == AssignTotals([subtotal |-> None, tax |-> None, total_due |-> None],
                                amounts)
    IN  IF labeled.total_due = None /\ amounts # <<>>
        THEN [labeled EXCEPT !.total_due = LargestByAbs(amounts).amount]
        ELSE labeled

(***************************************************************************)
(* extract_fields: the post-filter, the line items and their dedup         *)
(***************************************************************************)
PhoneClass == Digits \cup WhiteSpace \cup {"-", "(", ")"}

\* PHONE_RE.search(raw): \+?\d[\d\s\-\(\)]{6,}\d
PHONE_RE_search(raw) ==
    \E p \in 1..Len(raw) : \E q \in (p + 7)..Len(raw) :
        /\ raw[p] \in Digits
        /\ raw[q] \in Digits
        /\ \A k \in (p + 1)..(q - 1) : raw[k] \in PhoneClass

MaxRawDigits == 12

\* a variant of CleanAmounts that removes nothing
CleanAmountsKeepAll(amounts) == amounts

RECURSIVE CleanAmounts(_)
CleanAmounts(amounts) ==
    IF amounts = <<>> THEN <<>>
    ELSE LET a == Head(amounts)
         IN  (IF PHONE_RE_search(a.raw) /\ a.currency = None THEN <<>>
              ELSE IF DigitCount(a.raw) > MaxRawDigits /\ a.currency = None THEN <<>>
              ELSE <<a>>) \o CleanAmounts(Tail(amounts))

\* str.replace(sub, "") for a non-empty sub: the occurrences are removed left
\* to right, without overlap
RECURSIVE RemoveAllFrom(_, _, _)
RemoveAllFrom(s, sub, p) ==
    IF p > Len(s) THEN <<>>
    ELSE IF OccursAt(s, sub, p) THEN RemoveAllFrom(s, sub, p + Len(sub))
    ELSE <<s[p]>> \o RemoveAllFrom(s, sub, p + 1)

\* re.search(r"[A-Za-z]", s)
HasLetter(s) == \E i \in 1..Len(s) : s[i] \in Letters

\* ctx.split("|")
RECURSIVE SplitPipeFrom(_, _, _)
SplitPipeFrom(t, from, p) ==
    IF p > Len(t) THEN <<Slice(t, from, Len(t))>>
    ELSE IF t[p] = "|"
         THEN <<Slice(t, from, p - 1)>> \o SplitPipeFrom(t, p + 1, p + 1)
         ELSE SplitPipeFrom(t, from, p + 1)

\* the first element with a letter, None when there is none
RECURSIVE FirstWithLetter(_)
FirstWithLetter(parts) ==
    IF parts = <<>> THEN None
    ELSE IF HasLetter(Head(parts)) THEN Head(parts)
    ELSE FirstWithLetter(Tail(parts))

MaxDescTail == 60

\* a variant of AlphaRun that gives "" on no match
AlphaRunOrEmpty(ctx) ==
    IF ~HasLetter(ctx) THEN <<>>
    ELSE LET p == CHOOSE i \in 1..Len(ctx) :
                     ctx[i] \in Letters /\ \A j \in 1..(i - 1) : ctx[j] \notin Letters
         IN  Strip(Slice(ctx, p, p + MaxDescTail))

\* re.search(r"([A-Za-z].{0,60})", ctx), the group stripped; None on no match
AlphaRun(ctx) ==
    IF ~HasLetter(ctx) THEN None
    ELSE LET p == CHOOSE i \in 1..Len(ctx) :
                     ctx[i] \in Letters /\ \A j \in 1..(i - 1) : ctx[j] \notin Letters
         IN  Strip(Slice(ctx, p, p + MaxDescTail))

\* the description of one candidate
DescriptionOf(a) ==
    LET line_no_raw == Strip(RemoveAllFrom(a.line, a.raw, 1))
        ctx == a.context
        byPipe == IF Contains(ctx, <<"|">>)
                  THEN FirstWithLetter(StrippedNonEmpty(SplitPipeFrom(ctx, 1, 1)))
                  ELSE None
    IN  IF HasLetter(line_no_raw) THEN line_no_raw
        ELSE IF byPipe # None THEN byPipe
        ELSE AlphaRun(ctx)

ItemOf(a) ==
    [amount      |-> a.amount,
     currency    |-> a.currency,
     raw         |-> a.raw,
     description |-> DescriptionOf(a),
     label       |-> a.label,
     context     |-> a.context]

RECURSIVE ItemsOf(_)
ItemsOf(amounts) ==
    IF amounts = <<>> THEN <<>> ELSE <<ItemOf(Head(amounts))>> \o ItemsOf(Tail(amounts))

\* a variant of ItemKey without the lowercasing
ItemKeyCaseSensitive(it) ==
    <<it.amount, IF it.description = None THEN <<>> ELSE it.description>>

ItemKey(it) ==
    <<it.amount, Lower(IF it.description = None THEN <<>> ELSE it.description)>>

RECURSIVE DedupItems(_, _)
DedupItems(items, seen) ==
    IF items = <<>> THEN <<>>
    ELSE LET it == Head(items)
             key == ItemKey(it)
         IN  IF key \in seen THEN DedupItems(Tail(items), seen)
             ELSE <<it>> \o DedupItems(Tail(items), seen \cup {key})

(***************************************************************************)
(* extract_vendor                                                          *)
(***************************************************************************)
\* the alternatives of the company-suffix pattern, lowercased (the search
\* ignores case, so SOLUTIONS is the alternative Solutions again)
VendorSuffixes ==
    {<<"l", "t", "d">>,
     <<"l", "t", "d", ".">>,
     <<"s", "o", "l", "u", "t", "i", "o", "n", "s">>,
     <<"i", "n", "c">>,
     <<"i", "n", "c", ".">>,
     <<"c", "o", ".">>,
     <<"c", "o", "r", "p", "o", "r", "a", "t", "i", "o", "n">>,
     <<"l", "l", "p">>,
     <<"l", "l", "c">>,
     <<"g", "l", "o", "b", "a", "l">>,
     <<"c", "o", "r", "p">>}

\* re.search(r"\b(Ltd|Ltd\.|...)\b", ln, flags=re.IGNORECASE)
HasVendorSuffix(ln) ==
    LET low == Lower(ln)
    IN  \E p \in 1..Len(ln) : \E k \in VendorSuffixes :
            /\ WordBoundary(ln, p)
            /\ OccursAt(low, k, p)
            /\ WordBoundary(ln, p + Len(k))

\* re.sub(r"\s*\|.*$", "", ln): the line up to the white space before its
\* first pipe
CutAtPipe(ln) ==
    LET k == Find(ln, <<"|">>)
    IN  IF k = 0 THEN ln ELSE Slice(ln, 1, RStripFrom(ln, k - 1))

\* the index after [0-9\-\s\(\)]* matched greedily from p
RECURSIVE PhoneTailEnd(_, _)
PhoneTailEnd(s, p) ==
    IF p <= Len(s) /\ s[p] \in PhoneClass THEN PhoneTailEnd(s, p + 1) ELSE p

RECURSIVE SkipColonSpace(_, _)
SkipColonSpace(s, p) ==
    IF p <= Len(s) /\ s[p] \in (WhiteSpace \cup {":"})
    THEN SkipColonSpace(s, p + 1) ELSE p

\* the index after a match of Phone[:\s]*\+?\d[0-9\-\s\(\)]* at p, 0 when none
PhoneLabelEnd(s, p) ==
    LET a1 == SkipColonSpace(s, p + 5)
        a2 == IF a1 <= Len(s) /\ s[a1] = "+" THEN a1 + 1 ELSE a1
    IN  IF OccursAt(s, <<"P", "h", "o", "n", "e">>, p) /\ a2 <= Len(s) /\ s[a2] \in Digits
        THEN PhoneTailEnd(s, a2 + 1)
        ELSE 0

\* re.sub(r"Phone[:\s]*\+?\d[0-9\-\s\(\)]*", "", s)
RECURSIVE RemovePhoneFrom(_, _)
RemovePhoneFrom(s, p) ==
    IF p > Len(s) THEN <<>>
    ELSE IF PhoneLabelEnd(s, p) # 0 THEN RemovePhoneFrom(s, PhoneLabelEnd(s, p))
    ELSE <<s[p]>> \o RemovePhoneFrom(s, p + 1)

\* the number of words of ln.split() whose first character is upper case
CapitalizedWords(ln) ==
    Cardinality({i \in 1..Len(ln) :
                    /\ ln[i] \in UpperLetters
                    /\ (i = 1 \/ ln[i - 1] \in WhiteSpace)})

TopLines == 8

MaxVendorLen == 60

RECURSIVE FirstSuffixLine(_)
FirstSuffixLine(top) ==
    IF top = <<>> THEN None
    ELSE IF HasVendorSuffix(Head(top))
         THEN Strip(RemovePhoneFrom(Strip(CutAtPipe(Head(top))), 1))
    ELSE FirstSuffixLine(Tail(top))

RECURSIVE FirstCapitalizedLine(_)
FirstCapitalizedLine(top) ==
    IF top = <<>> THEN None
    ELSE IF CapitalizedWords(Head(top)) >= 2 /\ Len(Head(top)) < MaxVendorLen
         THEN Head(top)
    ELSE FirstCapitalizedLine(Tail(top))

extract_vendor(t) ==
    LET lines == StrippedNonEmpty(SplitLines(t))
        top == Slice(lines, 1, TopLines)
    IN  IF \E i \in 1..Len(top) : HasVendorSuffix(top[i]) THEN FirstSuffixLine(top)
        ELSE FirstCapitalizedLine(top)

(***************************************************************************)
(* extract_invoice_number                                                  *)
(***************************************************************************)
\* the alternatives of INVOICE_RE in the order the matcher tries them
InvoiceAnchors ==
    <<<<"i", "n", "v", "o", "i", "c", "e">>,
      <<"i", "n", "v", "o", "i", "c", "e", " ", "#">>,
      <<"i", "n", "v", "o", "i", "c", "e", " ", "n", "o">>,
      <<"i", "n", "v">>,
      <<"i", "n", "v">>>>

\* [A-Z0-9\-\_/] under re.IGNORECASE
InvoiceIdClass == Letters \cup Digits \cup {"-", "_", "/"}

RECURSIVE ClassRunEnd(_, _, _)
ClassRunEnd(s, class, p) ==
    IF p <= Len(s) /\ s[p] \in class THEN ClassRunEnd(s, class, p + 1) ELSE p

\* the group of INVOICE_RE when alternative k matches at p, None otherwise
InvoiceGroupAt(t, low, p, k) ==
    LET a1 == SkipColonSpace(t, p + Len(InvoiceAnchors[k]))
        a2 == ClassRunEnd(t, InvoiceIdClass, a1)
    IN  IF WordBoundary(t, p) /\ OccursAt(low, InvoiceAnchors[k], p) /\ a2 > a1
        THEN Slice(t, a1, a2 - 1)
        ELSE None

\* INVOICE_RE.search(t): the group of the leftmost match, under the first
\* alternative that matches there; None when there is no match
InvoiceSearch(t) ==
    LET low == Lower(t)
        alts == 1..Len(InvoiceAnchors)
        ok(p) == \E k \in alts : InvoiceGroupAt(t, low, p, k) # None
    IN  IF \E p \in 1..Len(t) : ok(p)
        THEN LET p == CHOOSE i \in 1..Len(t) : ok(i) /\ \A j \in 1..(i - 1) : ~ok(j)
                 k == CHOOSE a \in alts :
                         /\ InvoiceGroupAt(t, low, p, a) # None
                         /\ \A b \in 1..(a - 1) : InvoiceGroupAt(t, low, p, b) = None
             IN  InvoiceGroupAt(t, low, p, k)
        ELSE None

\* re.search(r"\b(INV[-\d/]+)\b", t, flags=re.IGNORECASE): the group of the
\* leftmost match, the run taken as long as the closing \b allows
InvFallback(t) ==
    LET low == Lower(t)
        ends(p) == {e \in (p + 4)..ClassRunEnd(t, Digits \cup {"-", "/"}, p + 3) :
                       WordBoundary(t, e)}
        ok(p) == WordBoundary(t, p) /\ OccursAt(low, <<"i", "n", "v">>, p) /\ ends(p) # {}
    IN  IF \E p \in 1..Len(t) : ok(p)
        THEN LET p == CHOOSE i \in 1..Len(t) : ok(i) /\ \A j \in 1..(i - 1) : ~ok(j)
                 e == CHOOSE x \in ends(p) : \A y \in ends(p) : y <= x
             IN  Slice(t, p, e - 1)
        ELSE None

extract_invoice_number(t) ==
    LET m == InvoiceSearch(t)
    IN  IF m # None THEN Strip(m) ELSE InvFallback(t)

(***************************************************************************)
(* DATE_RE                                                                 *)
(***************************************************************************)
DateSeps == {"/", "-"}

\* s[p..p+n-1] are n digits
DigitsAt(s, p, n) == p + n - 1 <= Len(s) /\ \A k \in 0..(n - 1) : s[p + k] \in Digits

\* \d{a}[/-]\d{b}[/-]\d{c}\b matches at p
NumericDateAt(s, p, a, b, c) ==
    /\ DigitsAt(s, p, a)
    /\ p + a <= Len(s) /\ s[p + a] \in DateSeps
    /\ DigitsAt(s, p + a + 1, b)
    /\ p + a + b + 1 <= Len(s) /\ s[p + a + b + 1] \in DateSeps
    /\ DigitsAt(s, p + a + b + 2, c)
    /\ WordBoundary(s, p + a + b + c + 2)

\* the widths of the three digit groups, in the order the greedy matcher
\* tries them: \d{1,2}[/-]\d{1,2}[/-]\d{2,4}, then \d{4}[/-]\d{1,2}[/-]\d{1,2}
NumericShapes ==
    << <<2, 2, 4>>, <<2, 2, 3>>, <<2, 2, 2>>, <<2, 1, 4>>, <<2, 1, 3>>, <<2, 1, 2>>,
       <<1, 2, 4>>, <<1, 2, 3>>, <<1, 2, 2>>, <<1, 1, 4>>, <<1, 1, 3>>, <<1, 1, 2>>,
       <<4, 2, 2>>, <<4, 2, 1>>, <<4, 1, 2>>, <<4, 1, 1>> >>

\* [A-Za-z]{n}\s+\d{d},\s*\d{4}\b matches at p: the index after it, 0 if not
NamedDateEnd(s, p, n, d) ==
    LET a1 == LStripFrom(s, p + n)
        a2 == LStripFrom(s, a1 + d + 1)
    IN  IF /\ p + n - 1 <= Len(s)
           /\ \A k \in 0..(n - 1) : s[p + k] \in Letters
           /\ a1 > p + n
           /\ DigitsAt(s, a1, d)
           /\ a1 + d <= Len(s) /\ s[a1 + d] = ","
           /\ DigitsAt(s, a2, 4)
           /\ WordBoundary(s, a2 + 4)
        THEN a2 + 4
        ELSE 0

\* the index after the match of DATE_RE that starts at p, 0 when none
DateMatchEnd(s, p) ==
    LET shapes == {k \in 1..Len(NumericShapes) :
                      NumericDateAt(s, p, NumericShapes[k][1], NumericShapes[k][2],
                                    NumericShapes[k][3])}
        first == CHOOSE k \in shapes : \A j \in shapes : k <= j
        named == {<<n, d>> \in (3..9) \X (1..2) : NamedDateEnd(s, p, n, d) # 0}
        best == CHOOSE x \in named :
                    \A y \in named : x[1] > y[1] \/ (x[1] = y[1] /\ x[2] >= y[2])
    IN  IF p > Len(s) \/ ~WordBoundary(s, p) THEN 0
        ELSE IF shapes # {}
             THEN p + NumericShapes[first][1] + NumericShapes[first][2]
                    + NumericShapes[first][3] + 2
        ELSE IF named # {} THEN NamedDateEnd(s, p, best[1], best[2])
        ELSE 0

\* DATE_RE.finditer(t): the spans <<start, stop>> (stop exclusive), in text
\* order
RECURSIVE DateSpansFrom(_, _)
DateSpansFrom(t, from) ==
    LET starts == {p \in from..Len(t) : DateMatchEnd(t, p) # 0}
        p == CHOOSE i \in starts : \A j \in starts : i <= j
    IN  IF starts = {} THEN <<>>
        ELSE << <<p, DateMatchEnd(t, p)>> >> \o DateSpansFrom(t, DateMatchEnd(t, p))

DATE_RE_finditer(t) == DateSpansFrom(t, 1)

(***************************************************************************)
(* dateparser.parse is a library outside the repository.  Of a span that   *)
(* DATE_RE matched it returns None or a datetime; the model lets it return *)
(* None or any calendar reading of the span's groups, in either order of   *)
(* day and month, and parse_dates_and_labels takes what it is given.  A    *)
(* datetime is the tuple <<year, month, day>>.                             *)
(***************************************************************************)
RECURSIVE IntOfFrom(_, _, _)
IntOfFrom(d, p, acc) ==
    IF p > Len(d) THEN acc ELSE IntOfFrom(d, p + 1, acc * 10 + DigitVal[d[p]])

\* int(d) of a string of digits
IntOf(d) == IntOfFrom(d, 1, 0)

\* re.findall(r"\d+", raw)
RECURSIVE DigitRunsFrom(_, _)
DigitRunsFrom(raw, p) ==
    IF p > Len(raw) THEN <<>>
    ELSE IF raw[p] \in Digits
         THEN LET e == ClassRunEnd(raw, Digits, p)
              IN  <<Slice(raw, p, e - 1)>> \o DigitRunsFrom(raw, e)
         ELSE DigitRunsFrom(raw, p + 1)

DigitRuns(raw) == DigitRunsFrom(raw, 1)

MonthNames ==
    <<<<"j", "a", "n">>, <<"f", "e", "b">>, <<"m", "a", "r">>,
      <<"a", "p", "r">>, <<"m", "a", "y">>, <<"j", "u", "n">>,
      <<"j", "u", "l">>, <<"a", "u", "g">>, <<"s", "e", "p">>,
      <<"o", "c", "t">>, <<"n", "o", "v">>, <<"d", "e", "c">>>>

\* the month a name stands for (by its first three letters), 0 when none
MonthOfName(name) ==
    LET low == Lower(Slice(name, 1, 3))
        ms == {k \in 1..12 : MonthNames[k] = low}
    IN  IF ms = {} THEN 0 ELSE CHOOSE k \in ms : TRUE

\* the years a year group can stand for: two digits are read in either century
YearsOf(g) == IF Len(g) <= 2 THEN {1900 + IntOf(g), 2000 + IntOf(g)} ELSE {IntOf(g)}

IsCalendarDate(dt) == dt[1] >= 1 /\ dt[2] \in 1..12 /\ dt[3] \in 1..31

\* the calendar readings of a span
Readings(raw) ==
    LET g == DigitRuns(raw)
        all == IF raw[1] \in Letters
               THEN {<<IntOf(g[2]), MonthOfName(Slice(raw, 1, ClassRunEnd(raw, Letters, 1) - 1)),
                       IntOf(g[1])>>}
               ELSE IF Len(g[1]) = 4
               THEN {<<IntOf(g[1]), IntOf(g[2]), IntOf(g[3])>>,
                     <<IntOf(g[1]), IntOf(g[3]), IntOf(g[2])>>}
               ELSE {<<y, IntOf(g[2]), IntOf(g[1])>> : y \in YearsOf(g[3])}
                      \cup {<<y, IntOf(g[1]), IntOf(g[2])>> : y \in YearsOf(g[3])}
    IN  {dt \in all : IsCalendarDate(dt)}

ParseOutcomes(raw) == {None} \cup Readings(raw)

\* the digits of n, padded with zeros to the width w
RECURSIVE Padded(_, _)
Padded(n, w) ==
    IF w = 0 THEN <<>>
    ELSE Padded(n \div 10, w - 1) \o <<CHOOSE c \in Digits : DigitVal[c] = n % 10>>

\* chosen.date().isoformat()
IsoFormat(dt) == Padded(dt[1], 4) \o <<"-">> \o Padded(dt[2], 2) \o <<"-">> \o Padded(dt[3], 2)

(***************************************************************************)
(* parse_dates_and_labels: the body of its loop for one match              *)
(***************************************************************************)
\* re.match(r"\d{4}-\d{1,2}-\d{1,2}", raw)
IsoShaped(raw) ==
    \E a \in 1..2 :
        /\ DigitsAt(raw, 1, 4)
        /\ Len(raw) >= 5 /\ raw[5] = "-"
        /\ DigitsAt(raw, 6, a)
        /\ 6 + a <= Len(raw) /\ raw[6 + a] = "-"
        /\ DigitsAt(raw, 7 + a, 1)

\* a variant of ChooseDate that falls back to the month-first parse
ChooseDateMonthFirst(raw, dt1, dt2) ==
    IF dt1 # None /\ dt2 = None THEN dt1
    ELSE IF dt2 # None /\ dt1 = None THEN dt2
    ELSE IF dt1 # None /\ dt2 # None
    THEN IF dt1 = dt2 THEN dt1
         ELSE IF IsoShaped(raw) THEN dt1
         ELSE IF DigitRuns(raw) # <<>> /\ IntOf(DigitRuns(raw)[1]) > 12 THEN dt1
         ELSE dt2
    ELSE None

\* the date chosen between the day-first parse dt1 and the month-first dt2
ChooseDate(raw, dt1, dt2) ==
    IF dt1 # None /\ dt2 = None THEN dt1
    ELSE IF dt2 # None /\ dt1 = None THEN dt2
    ELSE IF dt1 # None /\ dt2 # None
    THEN IF dt1 = dt2 THEN dt1
         ELSE IF IsoShaped(raw) THEN dt1
         ELSE IF DigitRuns(raw) # <<>> /\ IntOf(DigitRuns(raw)[1]) > 12 THEN dt1
         ELSE dt1
    ELSE None

WindowRadius == 40

\* text[max(m.start() - 40, 0):min(m.end() + 40, len(text))].lower()
WindowOf(t, span) ==
    Lower(Slice(t, IF span[1] - WindowRadius < 1 THEN 1 ELSE span[1] - WindowRadius,
                   span[2] - 1 + WindowRadius))

\* a variant of SlotOf that tests "due" before "issue"
SlotOfDueFirst(window) ==
    IF Contains(window, <<"d", "u", "e">>) THEN "due_date"
    ELSE IF Contains(window, <<"i", "s", "s", "u", "e">>) THEN "issue_date"
    ELSE IF Contains(window, <<"d", "e", "l", "i", "v">>) THEN "delivery_date"
    ELSE "other_dates"

\* the key of labels that the match is stored under
SlotOf(window) ==
    IF Contains(window, <<"i", "s", "s", "u", "e">>) \/ Contains(window, <<"i", "s", "s", "u", "e", "d">>)
    THEN "issue_date"
    ELSE IF Contains(window, <<"d", "u", "e">>) THEN "due_date"
    ELSE IF Contains(window, <<"d", "e", "l", "i", "v", "e", "r", "y">>) \/ Contains(window, <<"d", "e", "l", "i", "v">>)
    THEN "delivery_date"
    ELSE "other_dates"

\* a variant of StoreDate that keeps a slot once it is filled
StoreDateFirstWins(labels, window, iso) ==
    IF SlotOf(window) = "issue_date"
    THEN (IF labels.issue_date = None THEN [labels EXCEPT !.issue_date = iso] ELSE labels)
    ELSE IF SlotOf(window) = "due_date"
    THEN (IF labels.due_date = None THEN [labels EXCEPT !.due_date = iso] ELSE labels)
    ELSE IF SlotOf(window) = "delivery_date"
    THEN (IF labels.delivery_date = None THEN [labels EXCEPT !.delivery_date = iso]
          ELSE labels)
    ELSE [labels EXCEPT !.other_dates = Append(@, iso)]

\* labels after the match with this window and this iso
StoreDate(labels, window, iso) ==
    IF SlotOf(window) = "issue_date" THEN [labels EXCEPT !.issue_date = iso]
    ELSE IF SlotOf(window) = "due_date" THEN [labels EXCEPT !.due_date = iso]
    ELSE IF SlotOf(window) = "delivery_date" THEN [labels EXCEPT !.delivery_date = iso]
    ELSE [labels EXCEPT !.other_dates = Append(@, iso)]

(***************************************************************************)
(* The documents extract_fields is run on: every text of at most MaxLines  *)
(* lines of CorpusLines, the invoice of the module's docstring with at     *)
(* most one corpus line inserted after its leading line, a few longer      *)
(* documents, and None.                                                    *)
(***************************************************************************)
\* "Subtotal: $3,250.00"
LnSubtotalDec ==
    <<"S", "u", "b", "t", "o", "t", "a", "l", ":", " ", "$", "3", ",", "2",
      "5", "0", ".", "0", "0">>

\* "Subtotal: $3,250"
LnSubtotal ==
    <<"S", "u", "b", "t", "o", "t", "a", "l", ":", " ", "$", "3", ",", "2",
      "5", "0">>

\* "Tax (18%): $585.00"
LnTax ==
    <<"T", "a", "x", " ", "(", "1", "8", "%", ")", ":", " ", "$", "5", "8",
      "5", ".", "0", "0">>

\* "Total Due: $3,835.00"
LnTotalDue ==
    <<"T", "o", "t", "a", "l", " ", "D", "u", "e", ":", " ", "$", "3", ",",
      "8", "3", "5", ".", "0", "0">>

\* "Phone 9876543210"
LnPhone ==
    <<"P", "h", "o", "n", "e", " ", "9", "8", "7", "6", "5", "4", "3", "2",
      "1", "0">>

\* "Widget -$4,000"
LnCredit ==
    <<"W", "i", "d", "g", "e", "t", " ", "-", "$", "4", ",", "0", "0", "0">>

\* "Qty 2"
LnQty ==
    <<"Q", "t", "y", " ", "2">>

\* "Issue date: 2025-12-01"
LnIssue ==
    <<"I", "s", "s", "u", "e", " ", "d", "a", "t", "e", ":", " ", "2", "0",
      "2", "5", "-", "1", "2", "-", "0", "1">>

\* "Due 05/06/2025"
LnDue ==
    <<"D", "u", "e", " ", "0", "5", "/", "0", "6", "/", "2", "0", "2", "5">>

\* "Delivery: 2025-12-20"
LnDelivery ==
    <<"D", "e", "l", "i", "v", "e", "r", "y", ":", " ", "2", "0", "2", "5",
      "-", "1", "2", "-", "2", "0">>

\* "Ref 2025-11-30"
LnRef ==
    <<"R", "e", "f", " ", "2", "0", "2", "5", "-", "1", "1", "-", "3", "0">>

\* "  "
LnBlank ==
    <<" ", " ">>

\* "Notes"
LnNotes ==
    <<"N", "o", "t", "e", "s">>

\* "Acme Widgets Ltd."
LnVendor ==
    <<"A", "c", "m", "e", " ", "W", "i", "d", "g", "e", "t", "s", " ", "L",
      "t", "d", ".">>

\* "Invoice #: INV-2025-0098"
LnInvoice ==
    <<"I", "n", "v", "o", "i", "c", "e", " ", "#", ":", " ", "I", "N", "V",
      "-", "2", "0", "2", "5", "-", "0", "0", "9", "8">>

\* "INVOICE"
LnHeading ==
    <<"I", "N", "V", "O", "I", "C", "E">>

\* "Date: 2025-12-01"
LnDate ==
    <<"D", "a", "t", "e", ":", " ", "2", "0", "2", "5", "-", "1", "2", "-",
      "0", "1">>

\* "Due Date: 2025-12-15"
LnDueDate ==
    <<"D", "u", "e", " ", "D", "a", "t", "e", ":", " ", "2", "0", "2", "5",
      "-", "1", "2", "-", "1", "5">>

\* "Professional consulting (Nov 2025) 10 $2,000.00"
LnItem ==
    <<"P", "r", "o", "f", "e", "s", "s", "i", "o", "n", "a", "l", " ", "c",
      "o", "n", "s", "u", "l", "t", "i", "n", "g", " ", "(", "N", "o", "v",
      " ", "2", "0", "2", "5", ")", " ", "1", "0", " ", "$", "2", ",", "0",
      "0", "0", ".", "0", "0">>

\* "........................................."
LnPadding ==
    <<".", ".", ".", ".", ".", ".", ".", ".", ".", ".", ".", ".", ".", ".",
      ".", ".", ".", ".", ".", ".", ".", ".", ".", ".", ".", ".", ".", ".",
      ".", ".", ".", ".", ".", ".", ".", ".", ".", ".", ".", ".", ".">>

\* two lines that agree on their first 60 characters and on their amount
LnWideA == LnPadding \o LnPadding \o <<" ", "$", "5", "0", "0">>

LnWideB == LnWideA \o <<" ", "x">>

\* "SUBTOTAL: $3,250"
LnSubtotalUpper == Upper(LnSubtotal)

\* "$500" and "500": one amount, no text
LnBareUsd == <<"$", "5", "0", "0">>

LnBare == <<"5", "0", "0">>

\* "$1,234.56" and "1.234,56"
LnGroupedUs == <<"$", "1", ",", "2", "3", "4", ".", "5", "6">>

LnGroupedEu == <<"1", ".", "2", "3", "4", ",", "5", "6">>

\* "500 USD"
LnCode == <<"5", "0", "0", " ", "U", "S", "D">>

\* "Acct 123 456 789"
LnAccount ==
    <<"A", "c", "c", "t", " ", "1", "2", "3", " ", "4", "5", "6", " ", "7", "8", "9">>

CorpusLines ==
    {LnSubtotalDec, LnSubtotal, LnTax, LnTotalDue, LnPhone,
     LnCredit, LnQty, LnIssue, LnDue, LnDelivery,
     LnRef, LnBlank, LnNotes}

MaxLines == 2

\* "\n".join(ls)
RECURSIVE JoinLines(_)
JoinLines(ls) ==
    IF ls = <<>> THEN <<>>
    ELSE IF Len(ls) = 1 THEN ls[1]
    ELSE ls[1] \o <<"\n">> \o JoinLines(Tail(ls))

CorpusDocs ==
    {JoinLines(ls) : ls \in UNION {[1..n -> CorpusLines] : n \in 0..MaxLines}}

\* the invoice of the docstring of extractor.py
InvoiceLines == <<LnVendor, LnInvoice, LnSubtotalDec, LnTax, LnTotalDue>>

\* ls with the line x inserted after its k-th line
InsertLine(ls, k, x) == SubSeq(ls, 1, k) \o <<x>> \o SubSeq(ls, k + 1, Len(ls))

InvoiceDocs ==
    {JoinLines(InvoiceLines)}
      \cup {JoinLines(InsertLine(InvoiceLines, k, x)) :
               k \in 1..Len(InvoiceLines), x \in CorpusLines}

LongDocs ==
    {JoinLines(<<LnVendor, LnHeading, LnInvoice, LnDate, LnDueDate, LnItem,
                 LnSubtotalDec, LnTax, LnTotalDue>>),
     JoinLines(<<LnIssue, LnPadding, LnRef>>),
     JoinLines(<<LnDue, LnPadding, LnDueDate>>),
     JoinLines(<<LnTotalDue, LnTax, LnSubtotal, LnCredit>>),
     JoinLines(<<LnCredit, LnTax, LnSubtotal, LnTotalDue>>),
     JoinLines(<<LnDelivery, LnIssue, LnDue, LnPadding, LnRef>>),
     JoinLines(<<LnWideA, LnWideB>>),
     JoinLines(<<LnSubtotal, LnSubtotalUpper, LnBareUsd, LnBare>>),
     JoinLines(<<LnSubtotal, LnCode, LnNotes, LnBareUsd, LnBare>>),
     JoinLines(<<LnAccount, LnSubtotal, LnSubtotalUpper>>),
     LnGroupedUs,
     LnGroupedEu}

Docs == CorpusDocs \cup InvoiceDocs \cup LongDocs \cup {None}

(***************************************************************************)
(* The state machine: one invocation of extract_fields(doc).  The loop of  *)
(* parse_dates_and_labels runs one match per step.                         *)
(***************************************************************************)
VARIABLES
    doc,        \* the argument of extract_fields
    pc,         \* "start", "dates" (in the loop of parse_dates_and_labels), "done"
    text,       \* the local text: the argument stripped
    vendor,     \* the local vendor
    invoice,    \* the local invoice
    matches,    \* the spans of DATE_RE.finditer(text)
    mi,         \* the index in matches of the next match to process
    labels,     \* the dict labels of parse_dates_and_labels
    trail,      \* history: per processed match its span, its key of labels, its iso
    stages,     \* history: the extraction stages called so far
    amounts,    \* the local amounts: the list find_amounts_with_context returned
    clean_amounts,  \* the local clean_amounts: amounts after the post-filter
    result,     \* the returned dict
    amt_text,   \* the argument of a direct call of parse_amount_text
    value,      \* what that call returned
    calls,      \* per thread, the locals of its invocation of extract_fields
    parsed,     \* what dateparser.parse has returned, per (string, DATE_ORDER)
    started,    \* the number of invocations started so far
    upload,     \* the environment and the locals of one call of upload_doc
    resolve     \* one date match: its text, its two parses and the date chosen

vars == <<doc, pc, text, vendor, invoice, matches, mi, labels, trail, stages,
          amounts, clean_amounts, result, amt_text, value,
                   calls, parsed, started, upload,
                   resolve>>

EmptyLabels ==
    [issue_date |-> None, due_date |-> None, delivery_date |-> None, other_dates |-> <<>>]

\* the dict {}: a function with no key
EmptyDict == [k \in {} |-> None]

\* no date match under resolution
NoMatch == [pc |-> "none"]

\* no call of upload_doc
NoUpload == [pc |-> "none"]

\* the threads that call extract_fields
Threads == {"t1", "t2"}

\* the locals of a thread that has not called yet
IdleCall ==
    [doc |-> None, pc |-> "idle", text |-> <<>>, vendor |-> None, invoice |-> None,
     matches |-> <<>>, mi |-> 1, labels |-> EmptyLabels, result |-> EmptyDict]

Init ==
    /\ doc \in Docs
    /\ pc = "start"
    /\ text = <<>>
    /\ vendor = None
    /\ invoice = None
    /\ matches = <<>>
    /\ mi = 1
    /\ labels = EmptyLabels
    /\ trail = <<>>
    /\ stages = <<>>
    /\ amounts = <<>>
    /\ clean_amounts = <<>>
    /\ result = EmptyDict
    /\ amt_text = <<>>
    /\ value = None
    /\ calls = [t \in Threads |-> IdleCall]
    /\ parsed = EmptyDict
    /\ started = 0
    /\ upload = NoUpload
    /\ resolve = NoMatch

\* a variant of Stripped without the strip(): text or ""
StrippedNoStrip(d) == IF d = None THEN <<>> ELSE d

\* (text or "").strip()
Stripped(d) == Strip(IF d = None THEN <<>> ELSE d)

\* extract_fields on a blank text: return {}
ReturnEmpty ==
    /\ pc = "start"
    /\ Stripped(doc) = <<>>
    /\ text' = Stripped(doc)
    /\ result' = EmptyDict
    /\ pc' = "done"
    /\ UNCHANGED <<doc, vendor, invoice, matches, mi, labels, trail, stages,
                   amounts, clean_amounts, amt_text, value,
                   calls, parsed, started, upload,
                   resolve>>

\* extract_fields on a non-blank text, up to the first iteration of the loop
\* of parse_dates_and_labels
BeginExtraction ==
    /\ pc = "start"
    /\ Stripped(doc) # <<>>
    /\ text' = Stripped(doc)
    /\ vendor' = extract_vendor(text')
    /\ invoice' = extract_invoice_number(text')
    /\ labels' = EmptyLabels
    /\ matches' = DATE_RE_finditer(text')
    /\ mi' = 1
    /\ stages' = <<"extract_vendor", "extract_invoice_number", "parse_dates_and_labels">>
    /\ pc' = "dates"
    /\ UNCHANGED <<doc, trail, amounts, clean_amounts, result, amt_text, value,
                   calls, parsed, started, upload,
                   resolve>>

\* one iteration of the loop of parse_dates_and_labels
DateStep ==
    /\ pc = "dates"
    /\ mi <= Len(matches)
    /\ LET span == matches[mi]
           raw == Slice(text, span[1], span[2] - 1)
           window == WindowOf(text, span)
       IN  \E dt1 \in ParseOutcomes(raw), dt2 \in ParseOutcomes(raw) :
              LET chosen == ChooseDate(raw, dt1, dt2)
                  iso == IF chosen # None THEN IsoFormat(chosen) ELSE None
              IN  /\ labels' = StoreDate(labels, window, iso)
                  /\ trail' = Append(trail, [span |-> span, slot |-> SlotOf(window),
                                             iso |-> iso])
    /\ mi' = mi + 1
    /\ UNCHANGED <<doc, pc, text, vendor, invoice, matches, stages,
                   amounts, clean_amounts, result, amt_text, value,
                   calls, parsed, started, upload,
                   resolve>>

\* the rest of extract_fields, from the return of parse_dates_and_labels
FinishExtraction ==
    /\ pc = "dates"
    /\ mi > Len(matches)
    /\ amounts' = find_amounts_with_context(text)
    /\ clean_amounts' = CleanAmounts(amounts')
    /\ result' = [vendor  |-> vendor,
                  invoice |-> invoice,
                  dates   |-> labels,
                  amounts |-> DedupItems(ItemsOf(clean_amounts'), {}),
                  totals  |-> find_totals(clean_amounts')]
    /\ stages' = stages \o <<"find_amounts_with_context", "find_totals">>
    /\ pc' = "done"
    /\ UNCHANGED <<doc, text, vendor, invoice, matches, mi, labels, trail, amt_text, value,
                   calls, parsed, started, upload,
                   resolve>>

Next == ReturnEmpty \/ BeginExtraction \/ DateStep \/ FinishExtraction

Spec == Init /\ [][Next]_vars

(***************************************************************************)
(* A direct call of parse_amount_text(amt_text), the token drawn from the  *)
(* strings over digits and separators up to a length, and from the tokens  *)
(* the documentation names.                                                *)
(***************************************************************************)
TokenChars == {"2", "5", ",", "."}

MaxTokenLen == 5

\* "1,234.56", "1.234,56", "2,500", "3,5"
ExampleTokens ==
    {<<"1", ",", "2", "3", "4", ".", "5", "6">>,
     <<"1", ".", "2", "3", "4", ",", "5", "6">>,
     <<"2", ",", "5", "0", "0">>,
     <<"3", ",", "5">>}

Tokens == UNION {[1..n -> TokenChars] : n \in 0..MaxTokenLen} \cup ExampleTokens

ParseInit ==
    /\ amt_text \in Tokens
    /\ value = None
    /\ pc = "start"
    /\ doc = None
    /\ text = <<>>
    /\ vendor = None
    /\ invoice = None
    /\ matches = <<>>
    /\ mi = 1
    /\ labels = EmptyLabels
    /\ trail = <<>>
    /\ stages = <<>>
    /\ amounts = <<>>
    /\ clean_amounts = <<>>
    /\ result = EmptyDict
    /\ calls = [t \in Threads |-> IdleCall]
    /\ parsed = EmptyDict
    /\ started = 0
    /\ upload = NoUpload
    /\ resolve = NoMatch

\* value = parse_amount_text(amt_text)
ParseAmount ==
    /\ pc = "start"
    /\ value' = parse_amount_text(amt_text)
    /\ pc' = "done"
    /\ UNCHANGED <<doc, text, vendor, invoice, matches, mi, labels, trail, stages,
                   amounts, clean_amounts, result, amt_text, calls, parsed, started, upload,
                   resolve>>

ParseNext == ParseAmount

ParseSpec == ParseInit /\ [][ParseNext]_vars

(***************************************************************************)
(* extract_fields as a function of its argument, given what                *)
(* dateparser.parse returns for each (string, DATE_ORDER), and its         *)
(* invocations by several threads, interleaved step by step.               *)
(***************************************************************************)
\* the loop of parse_dates_and_labels from the match k on
RECURSIVE LabelsFrom(_, _, _, _, _)
LabelsFrom(t, ms, k, lbls, parse) ==
    IF k > Len(ms) THEN lbls
    ELSE LET raw == Slice(t, ms[k][1], ms[k][2] - 1)
             chosen == ChooseDate(raw, parse[<<raw, "DMY">>], parse[<<raw, "MDY">>])
             iso == IF chosen # None THEN IsoFormat(chosen) ELSE None
         IN  LabelsFrom(t, ms, k + 1, StoreDate(lbls, WindowOf(t, ms[k]), iso), parse)

parse_dates_and_labels(t, parse) ==
    LabelsFrom(t, DATE_RE_finditer(t), 1, EmptyLabels, parse)

\* the record that extract_fields returns for the stripped text t and the
\* dict dates
RecordOf(t, dates) ==
    [vendor  |-> extract_vendor(t),
     invoice |-> extract_invoice_number(t),
     dates   |-> dates,
     amounts |-> DedupItems(ItemsOf(CleanAmounts(find_amounts_with_context(t))), {}),
     totals  |-> find_totals(CleanAmounts(find_amounts_with_context(t)))]

extract_fields(d, parse) ==
    IF Stripped(d) = <<>> THEN EmptyDict
    ELSE RecordOf(Stripped(d), parse_dates_and_labels(Stripped(d), parse))

\* the texts the threads call extract_fields with
ConcDocs ==
    {LnBlank,
     JoinLines(<<LnDue, LnSubtotal>>),
     JoinLines(<<LnRef, LnSubtotal>>)}

MaxCalls == 3

\* the values dateparser.parse can return for the key k = <<string, order>>:
\* the value it has returned before for k, any outcome on the first call
OutcomesFor(p, k) == IF k \in DOMAIN p THEN {p[k]} ELSE ParseOutcomes(k[1])

\* p with the value v recorded for the key k
Recorded(p, k, v) == [x \in DOMAIN p \cup {k} |-> IF x = k THEN v ELSE p[x]]

\* a variant of NewLabels: the dict of the thread's previous invocation
NewLabelsKept(c) == c.labels

\* labels = {"issue_date": None, ...}: a new dict for each invocation
NewLabels(c) == EmptyLabels

ConcInit ==
    /\ calls = [t \in Threads |-> IdleCall]
    /\ parsed = EmptyDict
    /\ started = 0
    /\ upload = NoUpload
    /\ resolve = NoMatch
    /\ doc = None
    /\ pc = "start"
    /\ text = <<>>
    /\ vendor = None
    /\ invoice = None
    /\ matches = <<>>
    /\ mi = 1
    /\ labels = EmptyLabels
    /\ trail = <<>>
    /\ stages = <<>>
    /\ amounts = <<>>
    /\ clean_amounts = <<>>
    /\ result = EmptyDict
    /\ amt_text = <<>>
    /\ value = None

\* the variables of the single invocation and of the direct call
single == <<doc, pc, text, vendor, invoice, matches, mi, labels, trail, stages,
            amounts, clean_amounts, result, amt_text, value, upload, resolve>>

\* thread t calls extract_fields(d)
Invoke(t) ==
    /\ calls[t].pc \in {"idle", "done"}
    /\ started < MaxCalls
    /\ \E d \in ConcDocs :
           calls' = [calls EXCEPT ![t].doc = d, ![t].pc = "start"]
    /\ started' = started + 1
    /\ UNCHANGED <<parsed, single>>

\* the invocation of thread t returns {} for a blank text
CallReturnEmpty(t) ==
    /\ calls[t].pc = "start"
    /\ Stripped(calls[t].doc) = <<>>
    /\ calls' = [calls EXCEPT ![t].text = Stripped(calls[t].doc),
                              ![t].result = EmptyDict,
                              ![t].pc = "done"]
    /\ UNCHANGED <<parsed, started, single>>

\* the invocation of thread t runs up to the loop of parse_dates_and_labels
CallBegin(t) ==
    /\ calls[t].pc = "start"
    /\ Stripped(calls[t].doc) # <<>>
    /\ calls' = [calls EXCEPT ![t].text = Stripped(calls[t].doc),
                              ![t].vendor = extract_vendor(Stripped(calls[t].doc)),
                              ![t].invoice = extract_invoice_number(Stripped(calls[t].doc)),
                              ![t].labels = NewLabels(calls[t]),
                              ![t].matches = DATE_RE_finditer(Stripped(calls[t].doc)),
                              ![t].mi = 1,
                              ![t].pc = "dates"]
    /\ UNCHANGED <<parsed, started, single>>

\* one iteration of the loop of parse_dates_and_labels in thread t
CallDateStep(t) ==
    /\ calls[t].pc = "dates"
    /\ calls[t].mi <= Len(calls[t].matches)
    /\ LET c == calls[t]
           span == c.matches[c.mi]
           raw == Slice(c.text, span[1], span[2] - 1)
       IN  \E dt1 \in OutcomesFor(parsed, <<raw, "DMY">>),
              dt2 \in OutcomesFor(parsed, <<raw, "MDY">>) :
              LET chosen == ChooseDate(raw, dt1, dt2)
                  iso == IF chosen # None THEN IsoFormat(chosen) ELSE None
              IN  /\ calls' = [calls EXCEPT
                                  ![t].labels = StoreDate(c.labels, WindowOf(c.text, span), iso),
                                  ![t].mi = c.mi + 1]
                  /\ parsed' = Recorded(Recorded(parsed, <<raw, "DMY">>, dt1),
                                        <<raw, "MDY">>, dt2)
    /\ UNCHANGED <<started, single>>

\* the rest of the invocation of thread t
CallFinish(t) ==
    /\ calls[t].pc = "dates"
    /\ calls[t].mi > Len(calls[t].matches)
    /\ calls' = [calls EXCEPT ![t].result = RecordOf(calls[t].text, calls[t].labels),
                              ![t].pc = "done"]
    /\ UNCHANGED <<parsed, started, single>>

ConcNext ==
    \E t \in Threads :
        \/ Invoke(t)
        \/ CallReturnEmpty(t)
        \/ CallBegin(t)
        \/ CallDateStep(t)
        \/ CallFinish(t)

ConcSpec == ConcInit /\ [][ConcNext]_vars

(***************************************************************************)
(* upload_doc of src/app.py.  The environment of one upload is drawn in    *)
(* the initial state: whether the save, the helpers and the write raise,   *)
(* and the text the file holds.  The dicts that parser_rules and the       *)
(* summarizer return are kept as the pair of a tag and their argument.     *)
(***************************************************************************)
\* the names an upload can carry: "" (none given) and "a"
FileNames == {<<>>, <<"a">>}

\* what the text extraction returns when it does not raise
PageTexts == {None, <<>>, <<"T", "o", "t", "a", "l", "\r", "\n", "9">>}

\* file.filename or "uploaded_file"
FileNameOf(name) ==
    IF name = <<>>
    THEN <<"u", "p", "l", "o", "a", "d", "e", "d", "_", "f", "i", "l", "e">>
    ELSE name

\* run_ocr_on_file: the helper of ocr_extract when the module is there and
\* has one of the expected functions, PyMuPDF otherwise
run_ocr_on_file(u) ==
    IF u.helper \in {"raises", "returns"}
    THEN IF u.helper = "returns"
         THEN [text |-> u.page_text]
         ELSE [error |-> "ocr_failed", detail |-> "helper"]
    ELSE IF u.fitz = "returns"
         THEN [text |-> u.page_text]
         ELSE [error |-> "ocr_failed", detail |-> "fallback_failed"]

\* run_field_extraction
run_field_extraction(u, t) ==
    IF u.parser = "missing" THEN [error |-> <<"extractor_missing">>]
    ELSE IF u.parser = "no_function" THEN [error |-> <<"extract_no_fn">>]
    ELSE IF u.parser = "raises" THEN [error |-> <<"extract_failed">>]
    ELSE [fields |-> <<"fields", t>>]

\* run_summarize: the fallback summary when the helper is missing
run_summarize(u, t) ==
    IF u.summarizer = "raises" THEN [error |-> <<"summarize_failed">>]
    ELSE [summary |-> <<"summary", t>>]

\* a variant of HasError that finds no error
HasErrorNever(out) == FALSE

\* "error" in ocr_out
HasError(out) == "error" \in DOMAIN out

UploadInit ==
    /\ upload \in [pc : {"save"},
                   filename : FileNames,
                   save : {"raises", "returns"},
                   helper : {"missing", "no_function", "raises", "returns"},
                   fitz : {"raises", "returns"},
                   parser : {"missing", "no_function", "raises", "returns"},
                   summarizer : {"missing", "raises", "returns"},
                   write : {"raises", "returns"},
                   page_text : PageTexts,
                   ocr_out : {EmptyDict},
                   ran : {<<>>},
                   files : {{}},
                   response : {EmptyDict}]
    /\ calls = [t \in Threads |-> IdleCall]
    /\ parsed = EmptyDict
    /\ started = 0
    /\ doc = None
    /\ pc = "start"
    /\ text = <<>>
    /\ vendor = None
    /\ invoice = None
    /\ matches = <<>>
    /\ mi = 1
    /\ labels = EmptyLabels
    /\ trail = <<>>
    /\ stages = <<>>
    /\ amounts = <<>>
    /\ clean_amounts = <<>>
    /\ result = EmptyDict
    /\ amt_text = <<>>
    /\ value = None
    /\ resolve = NoMatch

\* every variable but upload
others == <<doc, pc, text, vendor, invoice, matches, mi, labels, trail, stages,
            amounts, clean_amounts, result, amt_text, value, calls, parsed, started,
            resolve>>

\* save_upload_file raises: the response 500
SaveFailed ==
    /\ upload.pc = "save"
    /\ upload.save = "raises"
    /\ upload' = [upload EXCEPT
                    !.response = [status |-> 500,
                                  filename |-> FileNameOf(upload.filename),
                                  text |-> <<>>,
                                  error |-> <<"save_failed">>],
                    !.pc = "done"]
    /\ UNCHANGED others

\* save_upload_file writes the upload to UPLOAD_DIR
SaveUpload ==
    /\ upload.pc = "save"
    /\ upload.save = "returns"
    /\ upload' = [upload EXCEPT !.files = @ \cup {FileNameOf(upload.filename)},
                                !.pc = "ocr"]
    /\ UNCHANGED others

\* run_ocr_on_file returns an error: the response that carries it
OcrFailed ==
    /\ upload.pc = "ocr"
    /\ HasError(run_ocr_on_file(upload))
    /\ upload' = [upload EXCEPT
                    !.ocr_out = run_ocr_on_file(upload),
                    !.ran = Append(@, "run_ocr_on_file"),
                    !.response = [status |-> 200,
                                  filename |-> FileNameOf(upload.filename),
                                  text |-> <<>>,
                                  clean_text |-> <<>>,
                                  fields |-> None,
                                  summary |-> None,
                                  error |-> run_ocr_on_file(upload)],
                    !.pc = "done"]
    /\ UNCHANGED others

\* the rest of upload_doc when run_ocr_on_file returned no error
ExtractAndRespond ==
    /\ upload.pc = "ocr"
    /\ ~HasError(run_ocr_on_file(upload))
    /\ LET ocr_out == run_ocr_on_file(upload)
           got == IF "text" \in DOMAIN ocr_out THEN ocr_out.text ELSE <<>>
           txt == IF got = None THEN <<>> ELSE got
           clean_text == ReplaceChar(txt, "\r", <<>>)
           extract_out == run_field_extraction(upload, clean_text)
           summary_out == run_summarize(upload, clean_text)
           out_json == [status |-> 200,
                        filename |-> FileNameOf(upload.filename),
                        text |-> txt,
                        clean_text |-> clean_text,
                        fields |-> IF "fields" \in DOMAIN extract_out
                                   THEN extract_out.fields ELSE None,
                        summary |-> IF "summary" \in DOMAIN summary_out
                                    THEN summary_out.summary ELSE None,
                        error |-> IF "error" \in DOMAIN extract_out
                                  THEN extract_out.error ELSE None]
       IN  upload' = [upload EXCEPT
                        !.ocr_out = ocr_out,
                        !.ran = @ \o <<"run_ocr_on_file", "run_field_extraction",
                                       "run_summarize">>,
                        !.files = IF upload.write = "returns"
                                  THEN @ \cup {FileNameOf(upload.filename)
                                                 \o <<".", "j", "s", "o", "n">>}
                                  ELSE @,
                        !.response = out_json,
                        !.pc = "done"]
    /\ UNCHANGED others

UploadNext == SaveFailed \/ SaveUpload \/ OcrFailed \/ ExtractAndRespond

UploadSpec == UploadInit /\ [][UploadNext]_vars

(***************************************************************************)
(* One iteration of the loop of parse_dates_and_labels up to iso: a text   *)
(* that DATE_RE matches, the two values dateparser.parse returned for it,  *)
(* and the date chosen.                                                    *)
(***************************************************************************)
\* "05/06/2025", "13/06/2025", "06/13/2025", "5/6/25", "2025-12-01",
\* "2025-13-01", "40/40/2025", "Dec 5, 2025", "3/4/2025", "1/2/99"
RawDates ==
    {<<"3", "/", "4", "/", "2", "0", "2", "5">>,
     <<"1", "/", "2", "/", "9", "9">>,
     <<"0", "5", "/", "0", "6", "/", "2", "0", "2", "5">>,
     <<"1", "3", "/", "0", "6", "/", "2", "0", "2", "5">>,
     <<"0", "6", "/", "1", "3", "/", "2", "0", "2", "5">>,
     <<"5", "/", "6", "/", "2", "5">>,
     <<"2", "0", "2", "5", "-", "1", "2", "-", "0", "1">>,
     <<"2", "0", "2", "5", "-", "1", "3", "-", "0", "1">>,
     <<"4", "0", "/", "4", "0", "/", "2", "0", "2", "5">>,
     <<"D", "e", "c", " ", "5", ",", " ", "2", "0", "2", "5">>}

ResolveInit ==
    /\ \E raw \in RawDates : \E dt1 \in ParseOutcomes(raw), dt2 \in ParseOutcomes(raw) :
           resolve = [pc |-> "parsed", raw |-> raw, dt1 |-> dt1, dt2 |-> dt2,
                      chosen |-> None, iso |-> None]
    /\ upload = NoUpload
    /\ calls = [t \in Threads |-> IdleCall]
    /\ parsed = EmptyDict
    /\ started = 0
    /\ doc = None
    /\ pc = "start"
    /\ text = <<>>
    /\ vendor = None
    /\ invoice = None
    /\ matches = <<>>
    /\ mi = 1
    /\ labels = EmptyLabels
    /\ trail = <<>>
    /\ stages = <<>>
    /\ amounts = <<>>
    /\ clean_amounts = <<>>
    /\ result = EmptyDict
    /\ amt_text = <<>>
    /\ value = None

\* chosen and iso of the match
ResolveDate ==
    /\ resolve.pc = "parsed"
    /\ LET chosen == ChooseDate(resolve.raw, resolve.dt1, resolve.dt2)
       IN  resolve' = [resolve EXCEPT
                         !.chosen = chosen,
                         !.iso = IF chosen # None THEN IsoFormat(chosen) ELSE None,
                         !.pc = "done"]
    /\ UNCHANGED <<doc, pc, text, vendor, invoice, matches, mi, labels, trail, stages,
                   amounts, clean_amounts, result, amt_text, value, calls, parsed,
                   started, upload>>

ResolveNext == ResolveDate

ResolveSpec == ResolveInit /\ [][ResolveNext]_vars

(***************************************************************************)
(* Properties                                                              *)
(***************************************************************************)
TopLevelFields == {"vendor", "invoice", "dates", "amounts", "totals"}

\* the invocation has returned
Returned == pc = "done"

\* the invocation has returned the full record (not the dict {})
ReturnedRecord == pc = "done" /\ DOMAIN result = TopLevelFields

\* the argument is None, empty or white space only
IsBlank(d) == d = None \/ \A i \in 1..Len(d) : d[i] \in WhiteSpace

\* the lines of the argument
DocLines(d) == IF d = None THEN <<>> ELSE SplitLines(d)

\* C1: for every input, also an empty, a whitespace-only and a None one,
\* extract_fields returns a record that has the five top-level fields
\* vendor, invoice, dates, amounts and totals.
C1_RecordIsComplete == Returned => DOMAIN result = TopLevelFields

\* the field k of the record r is absent or empty
FieldIsEmpty(r, k) ==
    \/ k \notin DOMAIN r
    \/ k \in {"vendor", "invoice"} /\ r[k] = None
    \/ k = "amounts" /\ r[k] = <<>>
    \/ k = "dates" /\ r[k] = EmptyLabels
    \/ k = "totals" /\ r[k] = [subtotal |-> None, tax |-> None, total_due |-> None]

\* C2: on an empty or whitespace-only text extract_fields runs no extraction
\* stage and returns a record in which every field is absent or empty.
C2_BlankShortCircuits ==
    (Returned /\ IsBlank(doc)) =>
        /\ stages = <<>>
        /\ \A k \in TopLevelFields : FieldIsEmpty(result, k)

\* a whitespace-only text has been processed
C2_Witness == Returned /\ doc # None /\ doc # <<>> /\ IsBlank(doc)

\* the indices of the lines of ls that contain "subtotal" in any case
SubtotalLines(ls) == {i \in 1..Len(ls) : Contains(Lower(ls[i]), LblSubtotal)}

\* The amount written at the end of a line, read as one numeric token: the
\* digits, commas and dots from the first digit of the line on
TokenStart(ln) == CHOOSE p \in 1..Len(ln) :
                     ln[p] \in Digits /\ \A q \in 1..(p - 1) : ln[q] \notin Digits

EndsWithAmountToken(ln) ==
    /\ \E p \in 1..Len(ln) : ln[p] \in Digits
    /\ ClassRunEnd(ln, Digits \cup {",", "."}, TokenStart(ln)) = Len(ln) + 1

TokenValue(ln) == parse_amount_text(Slice(ln, TokenStart(ln), Len(ln)))

\* C3: when a line contains "subtotal" next to a parseable amount, that
\* amount is totals.subtotal (stated for the texts with one such line, whose
\* amount ends the line).
C3_SubtotalIsLabeledAmount ==
    ReturnedRecord =>
        LET ls == DocLines(doc)
        IN  \A i \in SubtotalLines(ls) :
                (SubtotalLines(ls) = {i} /\ EndsWithAmountToken(ls[i]))
                    => result.totals.subtotal = TokenValue(ls[i])

\* the text has the leading line "Acme Widgets Ltd." and contains the invoice
\* number line and the three totals lines of the docstring's invoice
HasInvoiceLines(d) ==
    LET ls == DocLines(d)
    IN  /\ ls # <<>>
        /\ ls[1] = LnVendor
        /\ \A x \in {LnInvoice, LnSubtotalDec, LnTax, LnTotalDue} :
               \E i \in 1..Len(ls) : ls[i] = x

\* C4: for a text with the leading line "Acme Widgets Ltd." and the lines
\* "Invoice #: INV-2025-0098", "Subtotal: $3,250.00", "Tax (18%): $585.00" and
\* "Total Due: $3,835.00", extract_fields returns the invoice number
\* "INV-2025-0098", a vendor containing "Acme Widgets Ltd." and the totals
\* 3250.0, 585.0 and 3835.0.
C4_DocstringInvoice ==
    (ReturnedRecord /\ HasInvoiceLines(doc)) =>
        /\ result.invoice = <<"I", "N", "V", "-", "2", "0", "2", "5", "-", "0", "0", "9", "8">>
        /\ Contains(result.vendor, LnVendor)
        /\ result.totals = [subtotal  |-> <<FALSE, <<"3", "2", "5", "0">>, <<>> >>,
                            tax       |-> <<FALSE, <<"5", "8", "5">>, <<>> >>,
                            total_due |-> <<FALSE, <<"3", "8", "3", "5">>, <<>> >>]

\* no surviving candidate is labeled total_due, and one survives
NoTotalDueLabel ==
    /\ clean_amounts # <<>>
    /\ \A i \in 1..Len(clean_amounts) : clean_amounts[i].label # LblTotalDue

\* C5: when no surviving candidate is labeled total_due and one survives,
\* totals.total_due is the signed amount of a surviving candidate that no
\* surviving candidate, labeled or not, exceeds in absolute value.
C5_FallbackIsLargestAbs ==
    (ReturnedRecord /\ NoTotalDueLabel) =>
        \E i \in 1..Len(clean_amounts) :
            /\ result.totals.total_due = clean_amounts[i].amount
            /\ \A j \in 1..Len(clean_amounts) :
                   ~AbsLess(clean_amounts[i].amount, clean_amounts[j].amount)

\* the fallback took a negative amount that exceeds a labeled one in absolute
\* value
C5_Witness ==
    /\ ReturnedRecord
    /\ NoTotalDueLabel
    /\ Neg(result.totals.total_due)
    /\ \E i \in 1..Len(clean_amounts) :
           /\ clean_amounts[i].label # None
           /\ AbsLess(clean_amounts[i].amount, result.totals.total_due)

\* C6: in a record returned for a non-blank text, a non-empty amounts list
\* comes with a populated totals.total_due.
C6_TotalDuePopulated ==
    (ReturnedRecord /\ result.amounts # <<>>) => result.totals.total_due # None

\* amounts were returned, none of them labeled total_due
C6_Witness ==
    /\ ReturnedRecord
    /\ result.amounts # <<>>
    /\ \A i \in 1..Len(result.amounts) : result.amounts[i].label # LblTotalDue
    /\ result.totals.total_due # None

DateSlots == {"issue_date", "due_date", "delivery_date"}

\* C7 as stated: once a slot of labels is filled, a later match leaves it
\* unchanged (the first match assigned to a label wins).
C7_FirstMatchWins ==
    [][\A slot \in DateSlots : labels[slot] # None => labels'[slot] = labels[slot]]_vars

\* the iso of the last processed match stored under slot, None when none was
LastIsoFor(slot) ==
    LET at == {i \in 1..Len(trail) : trail[i].slot = slot}
    IN  IF at = {} THEN None ELSE trail[CHOOSE i \in at : \A j \in at : j <= i].iso

\* C7 as amended: each of issue_date, due_date and delivery_date holds the
\* date of the last match so far assigned to that label; a later match with
\* the same label overwrites the slot, with None when it is unresolved.
C7_LastMatchWins == \A slot \in DateSlots : labels[slot] = LastIsoFor(slot)

\* a filled slot has been overwritten by a later match with another date
C7_Witness ==
    \E slot \in DateSlots : \E i, j \in 1..Len(trail) :
        /\ i < j
        /\ trail[i].slot = slot /\ trail[j].slot = slot
        /\ trail[i].iso # None
        /\ trail[i].iso # trail[j].iso
        /\ labels[slot] = trail[j].iso

\* the place a match goes to by the keywords of its window, as C8 states it
PlaceFor(window) ==
    IF Contains(window, <<"i", "s", "s", "u", "e">>) THEN "issue_date"
    ELSE IF Contains(window, <<"d", "u", "e">>) THEN "due_date"
    ELSE IF Contains(window, <<"d", "e", "l", "i", "v">>) THEN "delivery_date"
    ELSE "other_dates"

\* C8: each date match is written to exactly one place: to the one slot
\* that the keywords of its window select (issue before due before
\* delivery), the other slots and other_dates staying as they are, or, with
\* no keyword in the window, to other_dates, which grows by that one entry.
C8_OnePlacePerMatch ==
    [][(pc = "dates" /\ mi' = mi + 1) =>
          LET place == PlaceFor(WindowOf(text, matches[mi]))
              iso == trail'[Len(trail')].iso
          IN  /\ \A slot \in DateSlots \ {place} : labels'[slot] = labels[slot]
              /\ place \in DateSlots =>
                    /\ labels'[place] = iso
                    /\ labels'.other_dates = labels.other_dates
              /\ place = "other_dates" =>
                    labels'.other_dates = Append(labels.other_dates, iso)]_vars

\* a match with several keywords in its window and a match with none have
\* been processed
C8_Witness ==
    /\ \E i \in 1..Len(trail) :
           LET w == WindowOf(text, trail[i].span)
           IN  /\ Contains(w, <<"i", "s", "s", "u", "e">>)
               /\ Contains(w, <<"d", "u", "e">>)
               /\ Contains(w, <<"d", "e", "l", "i", "v">>)
    /\ \E i \in 1..Len(trail) : trail[i].slot = "other_dates"
    /\ labels.other_dates # <<>>

\* the candidates of a list that carry the label lab, in order
WithLabel(cands, lab) == SelectSeq(cands, LAMBDA c : c.label = lab)

\* the rank of list positions is non-decreasing
RankedBy(cands, rank(_)) ==
    \A i, j \in 1..Len(cands) : i < j => rank(cands[i].label) <= rank(cands[j].label)

\* C9 as stated: the list returned by find_amounts_with_context has the
\* candidates labeled total_due first, then tax, then subtotal, then the
\* unlabeled ones.
C9_TaxBeforeSubtotal ==
    ReturnedRecord =>
        RankedBy(amounts, LAMBDA lab : IF lab = LblTotalDue THEN 0
                                       ELSE IF lab = LblTax THEN 1
                                       ELSE IF lab = LblSubtotal THEN 2 ELSE 3)

\* the candidates in scan order, before the sort
ScanOrder == DedupFound(FoundFrom(text_to_lines(text), 1), {})

\* C9 as amended: the list returned by find_amounts_with_context has the
\* candidates labeled total_due first, then subtotal, then tax, then the
\* unlabeled ones, each group in scan order.
C9_SubtotalBeforeTax ==
    ReturnedRecord =>
        /\ RankedBy(amounts, LAMBDA lab : IF lab = LblTotalDue THEN 0
                                          ELSE IF lab = LblSubtotal THEN 1
                                          ELSE IF lab = LblTax THEN 2 ELSE 3)
        /\ \A lab \in {LblTotalDue, LblSubtotal, LblTax, None} :
               WithLabel(amounts, lab) = WithLabel(ScanOrder, lab)

\* all four groups are present and the sort has moved candidates
C9_Witness ==
    /\ ReturnedRecord
    /\ \A lab \in {LblTotalDue, LblSubtotal, LblTax, None} : WithLabel(amounts, lab) # <<>>
    /\ amounts # ScanOrder
    /\ \E i, j \in 1..Len(ScanOrder) :
           i < j /\ ScanOrder[i].label = LblTax /\ ScanOrder[j].label = LblSubtotal

\* the line holds a run of exactly ten digits, no currency symbol, no
\* currency code and no label keyword
BarePhoneLine(ln) ==
    /\ \E p \in 1..Len(ln) :
           /\ DigitsAt(ln, p, 10)
           /\ (p = 1 \/ ln[p - 1] \notin Digits)
           /\ (p + 10 > Len(ln) \/ ln[p + 10] \notin Digits)
    /\ \A p \in 1..Len(ln) : ln[p] \notin CURRENCY_SYMS /\ ~CodeAt(ln, p)
    /\ ~Contains(Lower(ln), LblSubtotal)
    /\ ~Contains(Lower(ln), LblTax)
    /\ ~(Contains(Lower(ln), <<"t", "o", "t", "a", "l">>) /\ Contains(Lower(ln), <<"d", "u", "e">>))

\* C10: a line with a bare 10-digit phone number contributes no amount
\* candidate: nothing from that line is in the list returned by
\* find_amounts_with_context or among the surviving candidates.
C10_PhoneLineYieldsNothing ==
    ReturnedRecord =>
        \A k \in 1..Len(text_to_lines(text)) :
            BarePhoneLine(text_to_lines(text)[k]) =>
                /\ \A i \in 1..Len(amounts) : amounts[i].line # text_to_lines(text)[k]
                /\ \A i \in 1..Len(clean_amounts) :
                       clean_amounts[i].line # text_to_lines(text)[k]

\* abs(f) < 3.0, read off the integer part of the float
BelowThree(f) == IntPart(f) \in {<<>>, <<"1">>, <<"2">>}

\* C11: every candidate returned by find_amounts_with_context, and every
\* item of the returned amounts, whose absolute value is below 3.0 carries a
\* label or a currency.
C11_SmallAmountsAreMarked ==
    ReturnedRecord =>
        /\ \A i \in 1..Len(amounts) :
               BelowThree(amounts[i].amount) =>
                   amounts[i].label # None \/ amounts[i].currency # None
        /\ \A i \in 1..Len(result.amounts) :
               BelowThree(result.amounts[i].amount) =>
                   result.amounts[i].label # None \/ result.amounts[i].currency # None

\* a bare number below 3.0 on an unlabeled line was scanned and discarded,
\* and a labeled amount below 3.0 was kept
C11_Witness ==
    /\ ReturnedRecord
    /\ \E k \in 1..Len(text_to_lines(text)) :
           LET ln == text_to_lines(text)[k]
           IN  /\ LabelOf(ln) = None
               /\ \E n \in 1..Len(AMOUNT_RE_finditer(ln)) :
                      LET m == AMOUNT_RE_finditer(ln)[n]
                      IN  /\ m.sym = None /\ m.code = None
                          /\ m.amt \in {<<"1">>, <<"2">>}
               /\ \A i \in 1..Len(amounts) : amounts[i].line # ln
    /\ \E i \in 1..Len(result.amounts) :
           BelowThree(result.amounts[i].amount) /\ result.amounts[i].label # None

\* the key of C12: value, currency, raw text, first 60 characters of context
KeyOfCandidate(f) ==
    <<f.amount, f.currency, f.raw,
      SubSeq(f.context, 1, IF Len(f.context) < 60 THEN Len(f.context) ELSE 60)>>

\* the candidates as scanned, before deduplication and sorting
Scanned == FoundFrom(text_to_lines(text), 1)

\* C12: the list returned by find_amounts_with_context holds no two entries
\* with the same key; of the scanned candidates with one key exactly the
\* first scanned is in the list, and nothing else is; deduplicating the
\* list again changes nothing.
C12_OnePerKey ==
    ReturnedRecord =>
        \A sc \in {Scanned} :
            /\ \A i, j \in 1..Len(amounts) :
                   i # j => KeyOfCandidate(amounts[i]) # KeyOfCandidate(amounts[j])
            /\ \A n \in 1..Len(sc) :
                   LET first == CHOOSE k \in 1..n :
                                    /\ KeyOfCandidate(sc[k]) = KeyOfCandidate(sc[n])
                                    /\ \A h \in 1..(k - 1) :
                                           KeyOfCandidate(sc[h]) # KeyOfCandidate(sc[n])
                   IN  \E i \in 1..Len(amounts) :
                           /\ amounts[i] = sc[first]
                           /\ \A j \in 1..Len(amounts) :
                                  KeyOfCandidate(amounts[j]) = KeyOfCandidate(sc[n])
                                      => j = i
            /\ \A i \in 1..Len(amounts) : \E n \in 1..Len(sc) : amounts[i] = sc[n]
            /\ DedupFound(amounts, {}) = amounts

\* two different scanned candidates have one key, and the list holds the
\* first of them only
C12_Witness ==
    /\ ReturnedRecord
    /\ \E sc \in {Scanned} : \E n, m \in 1..Len(sc) :
           /\ n < m
           /\ KeyOfCandidate(sc[n]) = KeyOfCandidate(sc[m])
           /\ sc[n] # sc[m]
           /\ \E i \in 1..Len(amounts) : amounts[i] = sc[n]
           /\ \A i \in 1..Len(amounts) : amounts[i] # sc[m]

\* the key of C13: the amount and the lowercased description, "" when absent
KeyOfItem(it) ==
    <<it.amount, IF it.description = None THEN <<>> ELSE Lower(it.description)>>

\* the items in candidate order, before the final deduplication
CandidateItems == ItemsOf(clean_amounts)

\* C13: the returned amounts hold no two items with the same (amount,
\* lowercased description) key; they are exactly the candidate items that
\* are the first of their key, in candidate order.
C13_FirstItemPerKey ==
    ReturnedRecord =>
        \A items \in {CandidateItems} :
        \A kept \in {{i \in 1..Len(items) :
                        \A j \in 1..(i - 1) : KeyOfItem(items[j]) # KeyOfItem(items[i])}} :
            /\ \A i, j \in 1..Len(result.amounts) :
                   i # j => KeyOfItem(result.amounts[i]) # KeyOfItem(result.amounts[j])
            /\ Len(result.amounts) = Cardinality(kept)
            /\ \A n \in 1..Len(result.amounts) :
                   \E i \in kept :
                       /\ Cardinality({j \in kept : j <= i}) = n
                       /\ result.amounts[n] = items[i]

\* an item was dropped for a description that differs by case only, and
\* another for an absent description
C13_Witness ==
    /\ ReturnedRecord
    /\ \E items \in {CandidateItems} : \E i, j, k, l \in 1..Len(items) :
           /\ i < j
           /\ KeyOfItem(items[i]) = KeyOfItem(items[j])
           /\ items[i].description # None
           /\ items[i].description # items[j].description
           /\ k < l
           /\ KeyOfItem(items[k]) = KeyOfItem(items[l])
           /\ items[k].description = None
           /\ \A n \in 1..Len(result.amounts) :
                  result.amounts[n] # items[j] /\ result.amounts[n] # items[l]

\* the positions of the character c in the token t
PositionsOf(t, c) == {i \in 1..Len(t) : t[i] = c}

\* the token without the character c
Without(t, c) == SelectSeq(t, LAMBDA x : x # c)

\* the token with "." in the place of every ","
CommaAsPoint(t) == [i \in 1..Len(t) |-> IF t[i] = "," THEN "." ELSE t[i]]

\* some "," of the token is followed by exactly three digits and then by the
\* end of the token or a character that is no word character
GroupedByComma(t) ==
    \E p \in PositionsOf(t, ",") :
        /\ p + 3 <= Len(t)
        /\ {t[p + 1], t[p + 2], t[p + 3]} \subseteq Digits
        /\ (p + 3 = Len(t) \/ t[p + 4] \in {",", "."})

GroupedTokens(ln) ==
    {sp \in (1..Len(ln)) \X (1..3) :
        LET p == sp[1]
            a == sp[2]
        IN  /\ p + a + 6 <= Len(ln)
            /\ (p = 1 \/ ln[p - 1] \notin Digits \cup {",", "."})
            /\ \A k \in 0..(a - 1) : ln[p + k] \in Digits
            /\ ln[p + a] \in {",", "."}
            /\ \A k \in 1..3 : ln[p + a + k] \in Digits
            /\ ln[p + a + 4] \in {",", "."} \ {ln[p + a]}
            /\ \A k \in 5..6 : ln[p + a + k] \in Digits
            /\ (p + a + 6 = Len(ln) \/ ln[p + a + 7] \notin Digits \cup {",", "."})}

\* C15: a token with thousands grouping and a decimal part is matched as
\* one token and yields one candidate with the normalized value of the
\* whole token; it is not split into several matches.
C15_GroupedTokenIsOneCandidate ==
    ReturnedRecord =>
        \A lines \in {text_to_lines(text)} : \A k \in 1..Len(lines) :
        \A sp \in GroupedTokens(lines[k]) :
            LET ln == lines[k]
                p == sp[1]
                a == sp[2]
                q == p + a + 6
                ms == AMOUNT_RE_finditer(ln)
            IN  /\ Cardinality({n \in 1..Len(ms) :
                                   ms[n].start <= q /\ ms[n].stop > p}) = 1
                /\ \E i \in 1..Len(amounts) :
                       /\ amounts[i].line = ln
                       /\ Contains(amounts[i].raw, SubSeq(ln, p, q))
                       /\ IntPart(amounts[i].amount) =
                              DropLeadingZeros(SubSeq(ln, p, p + a - 1)
                                                 \o SubSeq(ln, p + a + 1, p + a + 3))
                       /\ FracPart(amounts[i].amount) =
                              DropTrailingZeros(SubSeq(ln, p + a + 5, q))

\* C16: whatever the interleaving with the other thread and whatever
\* invocations came before, a finished invocation has returned the record
\* that extract_fields gives for its text alone.
C16_SameAsAlone ==
    \A t \in Threads :
        calls[t].pc = "done" => calls[t].result = extract_fields(calls[t].doc, parsed)

\* a thread has finished its second invocation, on a text with a date, while
\* the other thread is inside the date loop of an invocation on another text
C16_Witness ==
    \E t, u \in Threads :
        /\ t # u
        /\ started = 3
        /\ calls[t].pc = "done"
        /\ calls[t].matches # <<>>
        /\ calls[u].pc = "dates"
        /\ calls[u].mi > 1
        /\ calls[u].doc # calls[t].doc

\* the steps of upload_doc that have run, as a set
RanSteps == {upload.ran[i] : i \in 1..Len(upload.ran)}

\* C17: when run_ocr_on_file returns an error, the response carries that
\* error with fields and summary null and empty text, neither field
\* extraction nor summarization has run and no result record is written;
\* field extraction runs only after a text extraction without error.
C17_OcrFailureSurfaced ==
    /\ (upload.pc = "done" /\ "error" \in DOMAIN upload.ocr_out) =>
           /\ upload.response.error = upload.ocr_out
           /\ upload.response.fields = None
           /\ upload.response.summary = None
           /\ upload.response.text = <<>>
           /\ "run_field_extraction" \notin RanSteps
           /\ "run_summarize" \notin RanSteps
           /\ upload.files \subseteq {FileNameOf(upload.filename)}
    /\ (upload.pc # "none" /\ "run_field_extraction" \in RanSteps) =>
           /\ "text" \in DOMAIN upload.ocr_out
           /\ "error" \notin DOMAIN upload.ocr_out
           /\ \E i, j \in 1..Len(upload.ran) :
                  i < j /\ upload.ran[i] = "run_ocr_on_file"
                        /\ upload.ran[j] = "run_field_extraction"

\* the helper of ocr_extract raised, with a parser and a writer that work,
\* and the handler has answered
C17_Witness ==
    /\ upload.pc = "done"
    /\ upload.helper = "raises"
    /\ upload.parser = "returns"
    /\ upload.write = "returns"
    /\ "error" \in DOMAIN upload.ocr_out
    /\ "error" \in DOMAIN upload.response

\* C18: the resolver takes the only parse that succeeded; with both it takes
\* the day-first parse, whether the parses agree, the text is ISO-shaped,
\* the first number exceeds 12, or none of these; with none the date is
\* absent.  The month-first parse is the result only when the day-first
\* parse failed.
C18_DayFirstUnlessFailed ==
    resolve.pc = "done" =>
        /\ (resolve.dt1 # None /\ resolve.dt2 = None) => resolve.chosen = resolve.dt1
        /\ (resolve.dt1 = None /\ resolve.dt2 # None) => resolve.chosen = resolve.dt2
        /\ (resolve.dt1 # None /\ resolve.dt2 # None) => resolve.chosen = resolve.dt1
        /\ (resolve.dt1 = None /\ resolve.dt2 = None) =>
               resolve.chosen = None /\ resolve.iso = None
        /\ (resolve.chosen # None /\ resolve.chosen # resolve.dt1) =>
               resolve.dt1 = None /\ resolve.chosen = resolve.dt2
        /\ resolve.chosen # None => resolve.iso = IsoFormat(resolve.chosen)

\* "05/06/2025": both parses succeeded and disagree, the text is not
\* ISO-shaped and its first number is at most 12; the day-first date is taken
C18_Witness ==
    /\ resolve.pc = "done"
    /\ resolve.raw = <<"0", "5", "/", "0", "6", "/", "2", "0", "2", "5">>
    /\ resolve.dt1 = <<2025, 6, 5>>
    /\ resolve.dt2 = <<2025, 5, 6>>
    /\ resolve.iso = <<"2", "0", "2", "5", "-", "0", "6", "-", "0", "5">>

\* the context C19 gives a candidate of line i: the previous line, " | " and
\* the line when there is a previous line and it holds no amount token, the
\* line itself otherwise
ContextByRule(lines, i) ==
    IF i > 1 /\ AMOUNT_RE_finditer(lines[i - 1]) = <<>>
    THEN lines[i - 1] \o <<" ", "|", " ">> \o lines[i]
    ELSE lines[i]

\* C19: every candidate scanned on line i has the context that the rule
\* gives for line i, and every returned candidate has the context of a line
\* it can come from.
C19_ContextRule ==
    ReturnedRecord =>
        \A lines \in {text_to_lines(text)} :
            /\ \A i \in 1..Len(lines) :
               \A cs \in {CandidatesOfMatches(lines, i, AMOUNT_RE_finditer(lines[i]))} :
               \A n \in 1..Len(cs) : cs[n].context = ContextByRule(lines, i)
            /\ \A n \in 1..Len(amounts) :
               \E i \in 1..Len(lines) :
                   lines[i] = amounts[n].line /\ amounts[n].context = ContextByRule(lines, i)

\* one returned candidate has the previous line in its context; another has
\* its own line only, and the line before it holds an amount token of which
\* no candidate was returned
C19_Witness ==
    /\ ReturnedRecord
    /\ \E lines \in {text_to_lines(text)} : \E n, m \in 1..Len(amounts) :
           /\ \E i \in 2..Len(lines) :
                  /\ lines[i] = amounts[n].line
                  /\ amounts[n].context = lines[i - 1] \o <<" ", "|", " ">> \o lines[i]
           /\ amounts[m].context = amounts[m].line
           /\ \E i \in 2..Len(lines) :
                  /\ lines[i] = amounts[m].line
                  /\ AMOUNT_RE_finditer(lines[i - 1]) # <<>>
                  /\ \A k \in 1..Len(amounts) : amounts[k].line # lines[i - 1]

\* C20: the description of every returned item is either absent or a
\* non-empty string with at least one letter; it is never the empty string.
C20_DescriptionAbsentOrText ==
    ReturnedRecord =>
        \A n \in 1..Len(result.amounts) :
            \/ result.amounts[n].description = None
            \/ /\ result.amounts[n].description # <<>>
               /\ \E k \in 1..Len(result.amounts[n].description) :
                      result.amounts[n].description[k] \in Letters

\* the candidate a has no letter on its line outside its raw text
NoTextOnLine(a) == ~HasLetter(Strip(RemoveAllFrom(a.line, a.raw, 1)))

\* returned items got their description from the line, from a pipe segment
\* of the context and from the first letter run of the context, and one
\* item has none
C20_Witness ==
    /\ ReturnedRecord
    /\ Len(result.amounts) = Len(clean_amounts)
    /\ \E i, j, k, l \in 1..Len(clean_amounts) :
           /\ ~NoTextOnLine(clean_amounts[i])
           /\ result.amounts[i].description # None
           /\ NoTextOnLine(clean_amounts[j])
           /\ Contains(clean_amounts[j].context, <<"|">>)
           /\ result.amounts[j].description # None
           /\ NoTextOnLine(clean_amounts[k])
           /\ ~Contains(clean_amounts[k].context, <<"|">>)
           /\ result.amounts[k].description # None
           /\ result.amounts[l].description = None

\* the keys of totals
TotalSlots == {"subtotal", "tax", "total_due"}

\* the candidate passes the post-filters of extract_fields: without a
\* currency its raw text is neither phone-shaped nor longer than 12 digits
PassesPostFilter(c) ==
    c.currency # None
        \/ (~PHONE_RE_search(c.raw)
              /\ Cardinality({k \in 1..Len(c.raw) : c.raw[k] \in Digits}) <= 12)

\* C21: in a returned record every populated value of totals is the amount
\* of an item of the returned amounts, and of a candidate that passed the
\* post-filters.
C21_TotalsAreItemAmounts ==
    ReturnedRecord =>
        \A slot \in TotalSlots :
            result.totals[slot] # None =>
                /\ \E n \in 1..Len(result.amounts) :
                       result.amounts[n].amount = result.totals[slot]
                /\ \E n \in 1..Len(amounts) :
                       /\ amounts[n].amount = result.totals[slot]
                       /\ PassesPostFilter(amounts[n])

\* the post-filter removed the candidate of largest absolute value, the
\* deduplication removed an item that carries the subtotal, and the totals
\* are populated
C21_Witness ==
    /\ ReturnedRecord
    /\ \E n \in 1..Len(amounts) :
           /\ ~PassesPostFilter(amounts[n])
           /\ \A m \in 1..Len(amounts) : ~AbsLess(amounts[n].amount, amounts[m].amount)
    /\ Len(result.amounts) < Len(clean_amounts)
    /\ \E items \in {CandidateItems} : \E n \in 1..Len(items) :
           /\ \A m \in 1..Len(result.amounts) : result.amounts[m] # items[n]
           /\ items[n].amount = result.totals.subtotal
    /\ result.totals.subtotal # None
    /\ result.totals.total_due # None

=============================================================================
